---------------------------- MODULE Spec2Model ----------------------------
(***************************************************************************)
(* Cross-Pollinator: tracker resolution, missing-tracker analysis and the  *)
(* command-line driver, modelled from src/cross-pollinator.py.             *)
(*                                                                         *)
(* Python strings are sequences of one-character strings, so that lower(), *)
(* strip(), substring tests, regular expressions and string ordering are   *)
(* computed as the code computes them.                                     *)
(***************************************************************************)
EXTENDS Integers, Sequences, FiniteSets, TLC

(***************************************************************************)
(* Strings                                                                 *)
(***************************************************************************)

\* Python None for the values the code returns as "no tracker" (falsy).
None == <<>>

UPPERCASE == <<"A","B","C","D","E","F","G","H","I","J","K","L","M","N","O","P","Q","R","S","T","U","V","W","X","Y","Z">>

LOWERCASE == <<"a","b","c","d","e","f","g","h","i","j","k","l","m","n","o","p","q","r","s","t","u","v","w","x","y","z">>

DIGITS == {"0","1","2","3","4","5","6","7","8","9"}

WHITESPACE == {" ", "\t"}

UpperSet == {UPPERCASE[i] : i \in 1..26}

LowerSet == {LOWERCASE[i] : i \in 1..26}

LowerMap == [c \in UpperSet |-> LOWERCASE[CHOOSE i \in 1..26 : UPPERCASE[i] = c]]

UpperMap == [c \in LowerSet |-> UPPERCASE[CHOOSE i \in 1..26 : LOWERCASE[i] = c]]

\* str.lower()
lower(s) == [i \in 1..Len(s) |-> IF s[i] \in UpperSet THEN LowerMap[s[i]] ELSE s[i]]

\* str.upper()
upper(s) == [i \in 1..Len(s) |-> IF s[i] \in LowerSet THEN UpperMap[s[i]] ELSE s[i]]

\* str.swapcase()
swapcase(s) == [i \in 1..Len(s) |-> IF s[i] \in UpperSet THEN LowerMap[s[i]] ELSE IF s[i] \in LowerSet THEN UpperMap[s[i]] ELSE s[i]]

\* str.strip(): drop leading and trailing whitespace
strip(s) ==
    LET keep == {i \in 1..Len(s) : s[i] \notin WHITESPACE}
    IN  IF keep = {} THEN <<>>
        ELSE SubSeq(s, CHOOSE i \in keep : \A j \in keep : i <= j,
                       CHOOSE i \in keep : \A j \in keep : i >= j)

\* Python's  needle in hay  for strings
Contains(hay, needle) ==
    \/ Len(needle) = 0
    \/ /\ Len(needle) <= Len(hay)
       /\ \E i \in 1..(Len(hay) - Len(needle) + 1) : SubSeq(hay, i, i + Len(needle) - 1) = needle

Min(S) == CHOOSE x \in S : \A y \in S : x <= y

Max(S) == CHOOSE x \in S : \A y \in S : x >= y

(***************************************************************************)
(* Tracker Resolver                                                        *)
(***************************************************************************)

\* ord(): code points of the characters that occur in the model
PUNCTUATION == << <<"\t", 9>>, <<" ", 32>>, <<"(", 40>>, <<")", 41>>, <<"-", 45>>, <<".", 46>>, <<"/", 47>>, <<":", 58>>, <<"[", 91>>, <<"]", 93>>, <<"_", 95>> >>

DIGITCHARS == <<"0","1","2","3","4","5","6","7","8","9">>

ord(c) ==
    IF c \in UpperSet THEN 64 + (CHOOSE i \in 1..26 : UPPERCASE[i] = c)
    ELSE IF c \in LowerSet THEN 96 + (CHOOSE i \in 1..26 : LOWERCASE[i] = c)
    ELSE IF c \in DIGITS THEN 47 + (CHOOSE i \in 1..10 : DIGITCHARS[i] = c)
    ELSE (CHOOSE p \in {PUNCTUATION[i] : i \in 1..Len(PUNCTUATION)} : p[1] = c)[2]

\* Python's  a < b  for strings: lexicographic by code point
StrLess(a, b) ==
    LET n == IF Len(a) < Len(b) THEN Len(a) ELSE Len(b)
        diff == {i \in 1..n : a[i] # b[i]}
    IN  IF diff = {} THEN Len(a) < Len(b)
        ELSE ord(a[Min(diff)]) < ord(b[Min(diff)])

\* sorted(S) for a set of strings
RECURSIVE sorted(_)
sorted(S) ==
    IF S = {} THEN <<>>
    ELSE LET m == CHOOSE x \in S : \A y \in S \ {x} : StrLess(x, y)
         IN  <<m>> \o sorted(S \ {m})

Range(seq) == {seq[i] : i \in 1..Len(seq)}

TRACKER_MAPPING == <<
    [abbrev |-> <<"A","C","M">>, variants |-> << <<"A","C","M">>, <<"e","i","g","a">> >>],
    [abbrev |-> <<"A","T">>, variants |-> << <<"A","T">>, <<"a","n","i","m","e","t","o","r","r","e","n","t","s",".","m","e">> >>],
    [abbrev |-> <<"A","B","T">>, variants |-> << <<"A","B","T">>, <<"t","r","a","c","k","e","r",".","a","n","i","m","e","b","y","t","e","s",".","t","v">> >>],
    [abbrev |-> <<"A","I","T","H","E","R">>, variants |-> << <<"A","I","T","H","E","R">>, <<"a","i","t","h","e","r">>, <<"a","i","t","h","e","r",".","c","c">> >>],
    [abbrev |-> <<"A","L">>, variants |-> << <<"A","L">>, <<"a","n","i","m","e","l","o","v","e","r","s">> >>],
    [abbrev |-> <<"A","N","T">>, variants |-> << <<"A","N","T">>, <<"a","n","t","h","e","l","i","o","n">>, <<"a","n","t","h","e","l","i","o","n",".","m","e">> >>],
    [abbrev |-> <<"A","R">>, variants |-> << <<"A","R">>, <<"a","l","p","h","a","r","a","t","i","o">> >>],
    [abbrev |-> <<"A","S","T">>, variants |-> << <<"A","S","T">>, <<"a","s","i","a","n","c","i","n","e","m","a">> >>],
    [abbrev |-> <<"A","T","H">>, variants |-> << <<"A","T","H">>, <<"a","s","g","a","a","r","d">> >>],
    [abbrev |-> <<"A","V","H","D">>, variants |-> << <<"A","V","H","D">> >>],
    [abbrev |-> <<"B","B">>, variants |-> << <<"B","B">>, <<"b","r","o","k","e","n","s","t","o","n","e","s">> >>],
    [abbrev |-> <<"B","H","D">>, variants |-> << <<"B","H","D">>, <<"b","e","y","o","n","d","-","h","d">>, <<"b","e","y","o","n","d","-","h","d",".","m","e">> >>],
    [abbrev |-> <<"B","H","D","T","V">>, variants |-> << <<"B","H","D","T","V">>, <<"b","i","t","-","h","d","t","v">> >>],
    [abbrev |-> <<"B","L","U">>, variants |-> << <<"B","L","U">>, <<"b","l","u","t","o","p","i","a">>, <<"b","l","u","t","o","p","i","a",".","c","c">> >>],
    [abbrev |-> <<"B","T","N">>, variants |-> << <<"B","T","N">>, <<"b","r","o","a","d","c","a","s","t","h","e",".","n","e","t">>, <<"l","a","n","d","o","f",".","t","v">> >>],
    [abbrev |-> <<"C","B","R">>, variants |-> << <<"C","B","R">>, <<"c","a","p","y","b","a","r","a","b","r">> >>],
    [abbrev |-> <<"C","R","T">>, variants |-> << <<"C","R","T">>, <<"c","a","t","h","o","d","e","-","r","a","y",".","t","u","b","e">>, <<"s","i","g","n","a","l",".","c","a","t","h","o","d","e","-","r","a","y",".","t","u","b","e">> >>],
    [abbrev |-> <<"C","G">>, variants |-> << <<"C","G">>, <<"c","i","n","e","m","a","g","e","d","d","o","n">> >>],
    [abbrev |-> <<"C","H","D">>, variants |-> << <<"C","H","D">>, <<"c","h","d","b","i","t","s">> >>],
    [abbrev |-> <<"C","i","n","e","m","a","Z">>, variants |-> << <<"C","i","n","e","m","a","Z">>, <<"c","i","n","e","m","a","z">> >>],
    [abbrev |-> <<"D","C","C">>, variants |-> << <<"D","C","C">>, <<"d","i","g","i","t","a","l","c","o","r","e",".","c","l","u","b">> >>],
    [abbrev |-> <<"D","T">>, variants |-> << <<"D","T">>, <<"d","e","s","i","t","o","r","r","e","n","t","s">> >>],
    [abbrev |-> <<"D","P">>, variants |-> << <<"D","P">>, <<"d","a","r","k","p","e","e","r","s">> >>],
    [abbrev |-> <<"E","M","T">>, variants |-> << <<"E","M","T">>, <<"e","m","p","o","r","n","i","u","m">> >>],
    [abbrev |-> <<"F","N","P">>, variants |-> << <<"F","N","P">>, <<"f","e","a","r","n","o","p","e","e","r">> >>],
    [abbrev |-> <<"F","L">>, variants |-> << <<"F","L">>, <<"f","i","l","e","l","i","s","t">>, <<"F","i","l","e","L","i","s","t">>, <<"r","e","a","c","t","o","r",".","f","i","l","e","l","i","s","t",".","i","o">>, <<"r","e","a","c","t","o","r",".","t","h","e","f","l",".","o","r","g">>, <<"r","e","a","c","t","o","r",".","f","l","r","o",".","o","r","g">> >>],
    [abbrev |-> <<"F","R","I","K","I">>, variants |-> << <<"F","R","I","K","I">>, <<"f","r","i","k","i","b","a","r">> >>],
    [abbrev |-> <<"G","G","n">>, variants |-> << <<"G","G","n">>, <<"g","a","z","e","l","l","e","g","a","m","e","s">> >>],
    [abbrev |-> <<"G","P","W">>, variants |-> << <<"G","P","W">>, <<"g","r","e","a","t","-","p","o","i","s","o","n","e","d","-","w","o","r","l","d">> >>],
    [abbrev |-> <<"H","D","B">>, variants |-> << <<"H","D","B">>, <<"h","d","b","i","t","s">>, <<"h","d","b","i","t","s",".","o","r","g">> >>],
    [abbrev |-> <<"H","D","C">>, variants |-> << <<"H","D","C">>, <<"h","d","-","c","e","n","t","e","r">> >>],
    [abbrev |-> <<"H","D","F">>, variants |-> << <<"H","D","F">>, <<"h","d","-","f","o","r","e","v","e","r">> >>],
    [abbrev |-> <<"H","D","H">>, variants |-> << <<"H","D","H">>, <<"h","d","h","o","m","e">> >>],
    [abbrev |-> <<"H","D","T">>, variants |-> << <<"H","D","T">>, <<"h","d","t","s","-","a","n","n","o","u","n","c","e">> >>],
    [abbrev |-> <<"H","D","U">>, variants |-> << <<"H","D","U">>, <<"h","d","-","u","n","i","t","e","d">> >>],
    [abbrev |-> <<"H","H","D">>, variants |-> << <<"H","H","D">>, <<"h","o","m","i","e","h","e","l","p","d","e","s","k">> >>],
    [abbrev |-> <<"H","P","F">>, variants |-> << <<"H","P","F">>, <<"h","a","r","r","y","p","o","t","t","e","r","f","a","n">> >>],
    [abbrev |-> <<"H","D","S">>, variants |-> << <<"H","D","S">>, <<"h","d","-","s","p","a","c","e",".","p","w">> >>],
    [abbrev |-> <<"H","U","N","O">>, variants |-> << <<"H","U","N","O">>, <<"h","a","w","k","e">>, <<"h","a","w","k","e",".","u","n","o">> >>],
    [abbrev |-> <<"i","A","n","o","n">>, variants |-> << <<"i","A","n","o","n">> >>],
    [abbrev |-> <<"I","M","S">>, variants |-> << <<"I","M","S">>, <<"i","m","m","o","r","t","a","l","s","e","e","d",".","m","e">> >>],
    [abbrev |-> <<"I","C","E">>, variants |-> << <<"I","C","E">>, <<"i","c","e","t","o","r","r","e","n","t">> >>],
    [abbrev |-> <<"I","P","T">>, variants |-> << <<"I","P","T">>, <<"l","o","c","a","l","h","o","s","t",".","s","t","a","c","k","o","v","e","r","f","l","o","w",".","t","e","c","h">>, <<"r","o","u","t","i","n","g",".","b","g","p",".","t","e","c","h","n","o","l","o","g","y">>, <<"s","s","l",".","e","m","p","i","r","e","h","o","s","t",".","m","e">> >>],
    [abbrev |-> <<"I","T","T">>, variants |-> << <<"I","T","T">>, <<"i","t","a","t","o","r","r","e","n","t","s">> >>],
    [abbrev |-> <<"J","P","o","p","s","u","k","i">>, variants |-> << <<"J","P","o","p","s","u","k","i">> >>],
    [abbrev |-> <<"K","G">>, variants |-> << <<"K","G">>, <<"k","a","r","a","g","a","r","g","a">> >>],
    [abbrev |-> <<"L","C","D">>, variants |-> << <<"L","C","D">>, <<"l","o","c","a","d","o","r","a">> >>],
    [abbrev |-> <<"L","S","T">>, variants |-> << <<"L","S","T">>, <<"l","s","t">>, <<"l","s","t",".","g","g">> >>],
    [abbrev |-> <<"L","T">>, variants |-> << <<"L","T">>, <<"l","a","t","-","t","e","a","m">> >>],
    [abbrev |-> <<"M","A","M">>, variants |-> << <<"M","A","M">>, <<"m","y","a","n","o","n","a","m","o","u","s","e">> >>],
    [abbrev |-> <<"M","E">>, variants |-> << <<"M","E">>, <<"m","i","l","k","i","e">> >>],
    [abbrev |-> <<"M","T","V">>, variants |-> << <<"M","T","V">>, <<"m","o","r","e","t","h","a","n","t","v">>, <<"m","o","r","e","t","h","a","n","t","v",".","m","e">> >>],
    [abbrev |-> <<"M","T","e","a","m">>, variants |-> << <<"M","T","e","a","m">> >>],
    [abbrev |-> <<"N","B","L">>, variants |-> << <<"N","B","L">>, <<"n","e","b","u","l","a","n","c","e">> >>],
    [abbrev |-> <<"N","C">>, variants |-> << <<"N","C">>, <<"n","o","r","b","i","t","s">> >>],
    [abbrev |-> <<"N","M">>, variants |-> << <<"N","M">>, <<"n","o","s","t","r","e","a","m">> >>],
    [abbrev |-> <<"O","E">>, variants |-> << <<"O","E">>, <<"o","n","l","y","e","n","c","o","d","e","s">>, <<"o","n","l","y","e","n","c","o","d","e","s",".","c","c">> >>],
    [abbrev |-> <<"O","P","S">>, variants |-> << <<"O","P","S">>, <<"o","r","p","h","e","u","s">>, <<"h","o","m","e",".","o","p","s","f","e","t",".","c","h">> >>],
    [abbrev |-> <<"O","T","W">>, variants |-> << <<"O","T","W">>, <<"o","l","d","t","o","o","n","s">>, <<"o","l","d","t","o","o","n","s",".","w","o","r","l","d">> >>],
    [abbrev |-> <<"P","B">>, variants |-> << <<"P","B">>, <<"p","r","i","v","a","t","e","b","i","t","s">> >>],
    [abbrev |-> <<"P","H","D">>, variants |-> << <<"P","H","D">>, <<"p","r","i","v","a","t","e","h","d">> >>],
    [abbrev |-> <<"P","i","r","a","t","e","T","h","e","N","e","t">>, variants |-> << <<"P","i","r","a","t","e","T","h","e","N","e","t">>, <<"p","i","r","a","t","e","t","h","e","n","e","t">> >>],
    [abbrev |-> <<"P","S","S">>, variants |-> << <<"P","S","S">>, <<"p","r","i","v","a","t","e","s","i","l","v","e","r","s","c","r","e","e","n">> >>],
    [abbrev |-> <<"P","T">>, variants |-> << <<"P","T">>, <<"p","o","r","t","u","g","a","s">> >>],
    [abbrev |-> <<"P","T","E","R">>, variants |-> << <<"P","T","E","R">> >>],
    [abbrev |-> <<"P","T","P">>, variants |-> << <<"P","T","P">>, <<"p","a","s","s","t","h","e","p","o","p","c","o","r","n",".","m","e">> >>],
    [abbrev |-> <<"P","T","T">>, variants |-> << <<"P","T","T">>, <<"p","o","l","i","s","h","t","o","r","r","e","n","t">> >>],
    [abbrev |-> <<"R","4","E">>, variants |-> << <<"R","4","E">>, <<"r","a","c","i","n","g","4","e","v","e","r","y","o","n","e">> >>],
    [abbrev |-> <<"R","A","S">>, variants |-> << <<"R","A","S">>, <<"r","a","s","t","a","s","t","u","g","a","n">> >>],
    [abbrev |-> <<"R","E","D">>, variants |-> << <<"R","E","D">>, <<"r","e","d","a","c","t","e","d">>, <<"f","l","a","c","s","f","o","r",".","m","e">> >>],
    [abbrev |-> <<"R","F">>, variants |-> << <<"R","F">>, <<"r","e","e","l","f","l","i","x">> >>],
    [abbrev |-> <<"R","T","F">>, variants |-> << <<"R","T","F">>, <<"r","e","t","r","o","f","l","i","x">> >>],
    [abbrev |-> <<"S","A","M">>, variants |-> << <<"S","A","M">>, <<"s","a","m","a","r","i","t","a","n","o">> >>],
    [abbrev |-> <<"S","C">>, variants |-> << <<"S","C">>, <<"s","c","e","n","e","t","i","m","e">> >>],
    [abbrev |-> <<"S","P","C">>, variants |-> << <<"S","P","C">>, <<"s","p","o","r","t","s","c","u","l","t","-","a","n","n","o","u","n","c","e",".","o","r","g">> >>],
    [abbrev |-> <<"S","N">>, variants |-> << <<"S","N">>, <<"s","w","a","r","m","a","z","o","n">> >>],
    [abbrev |-> <<"S","B">>, variants |-> << <<"S","B">>, <<"s","u","p","e","r","b","i","t","s",".","o","r","g",":","2","0","8","6">>, <<"t","r","a","c","k","e","r",".","s","u","p","e","r","b","i","t","s",".","o","r","g",":","2","0","8","6">> >>],
    [abbrev |-> <<"S","P">>, variants |-> << <<"S","P">>, <<"s","e","e","d","p","o","o","l",".","o","r","g">> >>],
    [abbrev |-> <<"S","P","D">>, variants |-> << <<"S","P","D">>, <<"s","p","e","e","d",".","c","o","n","n","e","c","t","i","n","g",".","c","e","n","t","e","r">> >>],
    [abbrev |-> <<"S","P","I">>, variants |-> << <<"S","P","I">>, <<"s","c","e","n","e","p","a","l","a","c","e",".","i","n","f","o">> >>],
    [abbrev |-> <<"S","T","C">>, variants |-> << <<"S","T","C">>, <<"s","k","i","p","t","h","e","c","o","m","m","e","r","i","c","a","l","s">> >>],
    [abbrev |-> <<"T","H","C">>, variants |-> << <<"T","H","C">>, <<"t","h","e","h","o","r","r","o","r","c","u","l","t">> >>],
    [abbrev |-> <<"T","H","R">>, variants |-> << <<"T","H","R">>, <<"t","o","r","r","e","n","t","h","r">> >>],
    [abbrev |-> <<"T","I","K">>, variants |-> << <<"T","I","K">>, <<"c","i","n","e","m","a","t","i","k">> >>],
    [abbrev |-> <<"T","L">>, variants |-> << <<"T","L">>, <<"t","o","r","r","e","n","t","l","e","e","c","h">>, <<"t","l","e","e","c","h","r","e","l","o","a","d",".","o","r","g">>, <<"t","o","r","r","e","n","t","l","e","e","c","h",".","o","r","g">>, <<"t","r","a","c","k","e","r",".","t","l","e","e","c","h","r","e","l","o","a","d",".","o","r","g">>, <<"t","r","a","c","k","e","r",".","t","o","r","r","e","n","t","l","e","e","c","h",".","o","r","g">> >>],
    [abbrev |-> <<"T","O","C","A">>, variants |-> << <<"T","O","C","A">>, <<"t","o","c","a","s","h","a","r","e">> >>],
    [abbrev |-> <<"T","S">>, variants |-> << <<"T","S">>, <<"t","o","r","r","e","n","t","s","e","e","d","s">> >>],
    [abbrev |-> <<"T","S","P">>, variants |-> << <<"T","S","P">>, <<"t","h","e","s","c","e","n","e","p","l","a","c","e">> >>],
    [abbrev |-> <<"T","V","C">>, variants |-> << <<"T","V","C">>, <<"t","v","c","h","a","o","s","u","k">> >>],
    [abbrev |-> <<"T","V","V">>, variants |-> << <<"T","V","V">>, <<"t","v","-","v","a","u","l","t">> >>],
    [abbrev |-> <<"U","H","D">>, variants |-> << <<"U","H","D">>, <<"u","h","d","s","h","a","r","e">> >>],
    [abbrev |-> <<"U","L","C","X">>, variants |-> << <<"U","L","C","X">>, <<"u","p","l","o","a","d">> >>],
    [abbrev |-> <<"U","T","P">>, variants |-> << <<"U","T","P">> >>],
    [abbrev |-> <<"W","C","D">>, variants |-> << <<"W","C","D">>, <<"w","h","a","t","c","d">> >>],
    [abbrev |-> <<"x","2","6","4">>, variants |-> << <<"x","2","6","4">> >>],
    [abbrev |-> <<"X","S">>, variants |-> << <<"X","S">>, <<"x","s","p","e","e","d","s">> >>],
    [abbrev |-> <<"X","W","T">>, variants |-> << <<"X","W","T">>, <<"t","r","a","c","k","e","r",".","x","t","r","e","m","e","w","r","e","s","t","l","i","n","g","t","o","r","r","e","n","t","s",".","n","e","t">>, <<"x","t","r","e","m","e","w","r","e","s","t","l","i","n","g","t","o","r","r","e","n","t","s",".","n","e","t">> >>],
    [abbrev |-> <<"Y","O","I","N","K">>, variants |-> << <<"Y","O","I","N","K">>, <<"y","o","i","n","k","e","d">> >>],
    [abbrev |-> <<"Y","U","S">>, variants |-> << <<"Y","U","S">>, <<"y","u","-","s","c","e","n","e">> >>]
>>

\* matches: every (abbrev, variant.lower()) pair, in table order
\* the (abbrev, variant.lower()) pairs of one entry of the table
MatchesOf(entry) ==
    [j \in 1..Len(entry.variants) |-> [abbrev |-> entry.abbrev, variant |-> lower(entry.variants[j])]]

RECURSIVE MatchesFrom(_, _)
MatchesFrom(k, mapping) ==
    IF k > Len(mapping) THEN <<>>
    ELSE MatchesOf(mapping[k]) \o MatchesFrom(k + 1, mapping)

AllMatches == MatchesFrom(1, TRACKER_MAPPING)

MaxVariantLen(matches) == Max({Len(matches[i].variant) : i \in 1..Len(matches)})

\* matches.sort(key=len(variant), reverse=True): stable, longest first
RECURSIVE MatchesOfLenAtMost(_, _)
MatchesOfLenAtMost(n, matches) ==
    IF n = 0 THEN <<>>
    ELSE SelectSeq(matches, LAMBDA m : Len(m.variant) = n) \o MatchesOfLenAtMost(n - 1, matches)

SortByLength_shortest_first(matches) ==
    [i \in 1..Len(matches) |->
        MatchesOfLenAtMost(MaxVariantLen(matches), matches)[Len(matches) + 1 - i]]

SortByLength(matches) == MatchesOfLenAtMost(MaxVariantLen(matches), matches)

SortedMatches == SortByLength(AllMatches)

\* the abbreviation of the first match satisfying a test, or None
FirstAbbrev(hits, matches) == IF hits = {} THEN None ELSE matches[Min(hits)].abbrev

ExactHits(domain_lower, matches) ==
    {i \in 1..Len(matches) : domain_lower = matches[i].variant}

PartialHits_min3(domain_lower, matches) ==
    {i \in 1..Len(matches) :
        Len(matches[i].variant) > 2 /\ Contains(domain_lower, matches[i].variant)}

PartialHits(domain_lower, matches) ==
    {i \in 1..Len(matches) :
        Len(matches[i].variant) > 3 /\ Contains(domain_lower, matches[i].variant)}

ReverseHits(domain_lower, matches) ==
    {i \in 1..Len(matches) :
        Len(domain_lower) > 5 /\ Contains(matches[i].variant, domain_lower)}

\* the three loops over the sorted matches: exact, partial, reverse partial
FirstMatch(domain_lower, matches) ==
    IF ExactHits(domain_lower, matches) # {} THEN FirstAbbrev(ExactHits(domain_lower, matches), matches)
    ELSE IF PartialHits(domain_lower, matches) # {} THEN FirstAbbrev(PartialHits(domain_lower, matches), matches)
    ELSE FirstAbbrev(ReverseHits(domain_lower, matches), matches)

map_domain_to_abbreviation(domain) ==
    IF domain = <<>> THEN None
    ELSE FirstMatch(strip(lower(domain)), SortedMatches)

(***************************************************************************)
(* Content classification and name normalisation                           *)
(***************************************************************************)

VIDEO_EXTENSIONS == {
    <<".","m","k","v">>, <<".","m","p","4">>, <<".","a","v","i">>, <<".","m","o","v">>, <<".","w","m","v">>,
    <<".","f","l","v">>, <<".","w","e","b","m">>, <<".","m","4","v">>, <<".","m","p","g">>,
    <<".","m","p","e","g">>, <<".","3","g","p">>, <<".","3","g","2">>, <<".","a","s","f">>, <<".","r","m">>,
    <<".","r","m","v","b">>, <<".","v","o","b">>, <<".","t","s">>, <<".","m","t","s">>, <<".","m","2","t","s">>,
    <<".","d","i","v","x">>, <<".","x","v","i","d">>, <<".","f","4","v">>, <<".","o","g","v">> }

IsDigitAt(s, i) == i >= 1 /\ i <= Len(s) /\ s[i] \in DIGITS

IsCharAt(s, i, c) == i >= 1 /\ i <= Len(s) /\ s[i] = c

\* position of the last "." of a file name, 0 if there is none
LastDot(name) ==
    LET dots == {i \in 1..Len(name) : name[i] = "."}
    IN  IF dots = {} THEN 0 ELSE Max(dots)

\* Path(name).suffix for a name without directory separators: the part from
\* the last dot, unless that dot is the first or the last character
PathSuffix(name) ==
    IF LastDot(name) > 1 /\ LastDot(name) < Len(name)
    THEN SubSeq(name, LastDot(name), Len(name))
    ELSE <<>>

\* Path(name).stem
PathStem(name) ==
    IF LastDot(name) > 1 /\ LastDot(name) < Len(name)
    THEN SubSeq(name, 1, LastDot(name) - 1)
    ELSE name

\* re.search(r'S\d{2}E\d{2}', s, re.IGNORECASE)
SearchSxxExx(s) ==
    \E i \in 1..Len(s) :
        /\ lower(s)[i] = "s" /\ IsDigitAt(s, i + 1) /\ IsDigitAt(s, i + 2)
        /\ IsCharAt(lower(s), i + 3, "e") /\ IsDigitAt(s, i + 4) /\ IsDigitAt(s, i + 5)

\* re.search(r'EP?\d+', s, re.IGNORECASE)
SearchEpN(s) ==
    \E i \in 1..Len(s) :
        /\ lower(s)[i] = "e"
        /\ \/ IsDigitAt(s, i + 1)
           \/ IsCharAt(lower(s), i + 1, "p") /\ IsDigitAt(s, i + 2)

\* re.search(r'Episode\s*\d+', s, re.IGNORECASE)
SearchEpisodeN(s) ==
    \E i \in 1..Len(s) :
        /\ i + 6 <= Len(s)
        /\ SubSeq(lower(s), i, i + 6) = <<"e","p","i","s","o","d","e">>
        /\ \E j \in (i + 7)..Len(s) :
              /\ IsDigitAt(s, j)
              /\ \A k \in (i + 7)..(j - 1) : s[k] \in WHITESPACE

\* re.search(r'\d{4}[.\-]\d{2}[.\-]\d{2}', s)
SearchDate(s) ==
    \E i \in 1..Len(s) :
        /\ \A k \in 0..3 : IsDigitAt(s, i + k)
        /\ IsCharAt(s, i + 4, ".") \/ IsCharAt(s, i + 4, "-")
        /\ IsDigitAt(s, i + 5) /\ IsDigitAt(s, i + 6)
        /\ IsCharAt(s, i + 7, ".") \/ IsCharAt(s, i + 7, "-")
        /\ IsDigitAt(s, i + 8) /\ IsDigitAt(s, i + 9)

\* is_single_episode(filename, config) with the single_episode_patterns the
\* code falls back to (and writes into the default configuration)
is_single_episode(filename) ==
    \/ SearchSxxExx(lower(filename))
    \/ SearchEpN(lower(filename))
    \/ SearchEpisodeN(lower(filename))
    \/ SearchDate(lower(filename))

\* is_season_from_files(files_json): files is the parsed list of file names,
\* <<>> when the column is empty
is_season_from_files(files) ==
    IF Len(files) <= 1 THEN [is_season |-> FALSE, episode_count |-> 0]
    ELSE LET episode_count == Cardinality({i \in 1..Len(files) : SearchSxxExx(files[i])})
         IN  [is_season |-> episode_count > 1, episode_count |-> episode_count]

\* VIDEO_PATTERNS, searched in name.lower() ignoring case
VIDEO_PATTERN_WORDS == {
    <<"1","0","8","0","p">>, <<"7","2","0","p">>, <<"2","1","6","0","p">>, <<"4","k">>,
    <<"x","2","6","4">>, <<"x","2","6","5">>, <<"h",".","2","6","4">>, <<"h",".","2","6","5">>,
    <<"b","l","u","r","a","y">>, <<"w","e","b","-","d","l">>, <<"w","e","b","r","i","p">>, <<"d","v","d","r","i","p">> }

SearchVideoPatterns(name) ==
    \/ \E i \in 1..Len(name) : lower(name)[i] = "s" /\ IsDigitAt(name, i + 1) /\ IsDigitAt(name, i + 2)
    \/ \E i \in 1..Len(name) : \A k \in 0..3 : IsDigitAt(name, i + k)
    \/ \E w \in VIDEO_PATTERN_WORDS : Contains(lower(name), w)

is_video_content(name, files) ==
    \/ is_season_from_files(files).is_season
    \/ lower(PathSuffix(name)) \in VIDEO_EXTENSIONS
    \/ \E i \in 1..Len(files) : lower(PathSuffix(files[i])) \in VIDEO_EXTENSIONS
    \/ SearchVideoPatterns(name)

\* re.sub(r'[.\-_]', ' ', s)
ReplaceSeparators(s) == [i \in 1..Len(s) |-> IF s[i] \in {".", "-", "_"} THEN " " ELSE s[i]]

\* re.sub(r'\s+', ' ', s): every run of whitespace becomes one space
RECURSIVE CollapseWhitespace(_)
CollapseWhitespace(s) ==
    IF s = <<>> THEN <<>>
    ELSE IF Head(s) \in WHITESPACE
         THEN IF Len(s) > 1 /\ s[2] \in WHITESPACE
              THEN CollapseWhitespace(Tail(s))
              ELSE <<" ">> \o CollapseWhitespace(Tail(s))
         ELSE <<Head(s)>> \o CollapseWhitespace(Tail(s))

normalize_content_name(filename) ==
    strip(CollapseWhitespace(ReplaceSeparators(lower(PathStem(filename) \o PathSuffix(filename)))))

(***************************************************************************)
(* State                                                                   *)
(***************************************************************************)
VARIABLES
    domain,                \* resolver harness: the raw identifier under test
    abbrev,                \* resolver harness: map_domain_to_abbreviation(domain)
    rpc,                   \* resolver harness: position
    domain_to_abbrev,      \* build_comprehensive_tracker_mapping: domain -> code
    available_trackers,    \* build_comprehensive_tracker_mapping: sorted codes
    db,                    \* client_searchee, in the order of ORDER BY name
    config_file,           \* the configuration file (the record MissingConfig if absent)
    pc,                    \* position of main() and of the analysis
    enabled_trackers,      \* get_enabled_trackers_from_config(...)
    torrent_rows,          \* cursor.fetchall()
    row_index,             \* rows handled so far by the loop over torrent_rows
    items,                 \* the item dictionaries created so far, by info_hash
    content_groups,        \* normalized name -> items, in insertion order
    season_episode_groups, \* normalized name -> items, in insertion order
    results,               \* the list the analysis returns (info_hashes of items)
    args,                  \* the parsed command line
    db_exists,             \* Path(DB_PATH).exists()
    db_readable,           \* the file is a database with a client_searchee table
    exit_code,             \* exit status of the process, -1 while it runs
    stdout,                \* what main() and the analysis reported
    connections,           \* sqlite3.connect calls so far
    files_written,         \* the kinds of files and directories created so far
    displayed,             \* the names display_results printed, in order
    commands,              \* the lines of the commands file
    loop_groups,           \* content_groups as the loop over torrent_rows left it
    run,                   \* 1 for the first analysis, 2 for a repeated one
    first_results,         \* the results of the first analysis, as returned
    second_pass,           \* the outcome of a second pass over the groups
    test_torrent,          \* extraction harness: the name under test
    extracted_group,       \* extraction harness: extract_release_group_from_name(test_torrent)
    now,                   \* datetime.now(), in hours
    banned_groups_cache,   \* BannedGroupsChecker.banned_groups_cache: tracker -> groups, timestamp
    banned_files,          \* data/banned/<TRACKER>_banned_groups.json, by tracker
    api,                   \* what the API of a tracker answers, page by page
    banned_groups_config,  \* the config the checker is created with
    fetches,               \* the HTTP fetches started so far: tracker and time
    last_call,             \* the last call on the checker and what it returned
    calls,                 \* the number of calls on the checker so far
    next_cursor,           \* _fetch_banned_groups_from_api: the cursor of the next page
    all_data               \* _fetch_banned_groups_from_api: the items of the pages read

resolverVars == <<domain, abbrev, rpc>>

mappingVars == <<domain_to_abbrev, available_trackers>>

analysisVars == <<db, config_file, pc, enabled_trackers, torrent_rows, row_index, items,
                  content_groups, season_episode_groups, results>>

mainVars == <<args, db_exists, db_readable, exit_code, stdout, connections, files_written>>

outputVars == <<displayed, commands>>

repeatVars == <<loop_groups, run, first_results, second_pass>>

bannedVars == <<test_torrent, extracted_group, now, banned_groups_cache, banned_files, api,
                banned_groups_config, fetches, last_call, calls>>

pagingVars == <<next_cursor, all_data>>

vars == <<resolverVars, mappingVars, analysisVars, mainVars, outputVars, repeatVars, bannedVars, pagingVars>>

(***************************************************************************)
(* Tracker extraction and mapping                                          *)
(***************************************************************************)

\* extract_unique_trackers_from_db over the parsed trackers lists of the rows
\* that hold a list: strip every non-empty string, collect, sort.
extract_unique_trackers(lists) ==
    sorted(UNION {{strip(l[i]) : i \in 1..Len(l)} : l \in lists} \ {<<>>})

\* the tracker domains that occur in the rows of the database
AITHER_CC == <<"a","i","t","h","e","r",".","c","c">>

BLUTOPIA_CC == <<"b","l","u","t","o","p","i","a",".","c","c">>

LST_GG == <<"l","s","t",".","g","g">>

UNKNOWN_XYZ == <<"u","n","k","n","o","w","n",".","x","y","z">>

\* the loop over unique_domains (lines 499-505), from domain i on
\* lines 499-505: one domain of the loop
MapDomain(acc, unique_domain, abbreviation) ==
    IF abbreviation # None
    THEN [domain_to_abbrev |-> (unique_domain :> abbreviation) @@ acc.domain_to_abbrev,
          mapped_trackers  |-> acc.mapped_trackers \cup {abbreviation}]
    ELSE acc

RECURSIVE MapDomainsFrom(_, _, _)
MapDomainsFrom(i, unique_domains, acc) ==
    IF i > Len(unique_domains) THEN acc
    ELSE MapDomainsFrom(i + 1, unique_domains,
                        MapDomain(acc, unique_domains[i], map_domain_to_abbreviation(unique_domains[i])))

\* return domain_to_abbrev, sorted(mapped_trackers)
SortTrackers(m) == [domain_to_abbrev |-> m.domain_to_abbrev, mapped_trackers |-> sorted(m.mapped_trackers)]

build_comprehensive_tracker_mapping(unique_domains) ==
    SortTrackers(MapDomainsFrom(1, unique_domains, [domain_to_abbrev |-> <<>>, mapped_trackers |-> {}]))

(***************************************************************************)
(* Configuration                                                           *)
(***************************************************************************)

\* s.split(sep) for a one-character separator
RECURSIVE Split(_, _)
Split(s, sep) ==
    LET seps == {i \in 1..Len(s) : s[i] = sep}
    IN  IF seps = {} THEN <<s>>
        ELSE <<SubSeq(s, 1, Min(seps) - 1)>> \o Split(SubSeq(s, Min(seps) + 1, Len(s)), sep)

\* [t.strip().upper() for t in value.split(',') if t.strip()]
TrackerList(value) ==
    LET parts == Split(value, ",")
        kept  == SelectSeq(parts, LAMBDA t : strip(t) # <<>>)
    IN  [k \in 1..Len(kept) |-> upper(strip(kept[k]))]

get_enabled_trackers_from_config(config, available) ==
    LET enabled_list  == strip(config.enabled_trackers)
        disabled_list == strip(config.disabled_trackers)
    IN  IF enabled_list # <<>>
        THEN SelectSeq(TrackerList(enabled_list), LAMBDA t : t \in Range(available))
        ELSE IF disabled_list # <<>>
        THEN SelectSeq(available, LAMBDA t : t \notin Range(TrackerList(disabled_list)))
        ELSE available

\* parse_categories(category_data)
parse_categories(category_data) ==
    IF category_data = <<>> THEN <<>>
    ELSE LET parts == Split(category_data, ",")
             kept  == SelectSeq(parts, LAMBDA c : strip(c) # <<>>)
         IN  [k \in 1..Len(kept) |-> strip(kept[k])]

(***************************************************************************)
(* Items and groups                                                        *)
(***************************************************************************)

\* create_torrent_item: "none" when the row is filtered out or its trackers
\* field is no valid JSON, "raise" when json.loads yields a value the set
\* comprehension cannot iterate or hash (TypeError), else the item.
create_torrent_item(row, d2a, enabled, config) ==
    LET season == is_season_from_files(row.files)
        found_trackers == {d2a[d] : d \in Range(row.trackers.value) \cap DOMAIN d2a}
        relevant_trackers == Range(enabled)
        missing_trackers == sorted(relevant_trackers \ found_trackers)
        found_relevant_trackers == sorted(found_trackers \cap relevant_trackers)
    IN  IF ~is_video_content(row.name, row.files) THEN [kind |-> "none"]
        ELSE IF is_single_episode(row.name) /\ ~config.include_single_episodes THEN [kind |-> "none"]
        ELSE IF ~season.is_season /\ PathSuffix(row.name) = <<>> /\ ~config.include_folders THEN [kind |-> "none"]
        ELSE IF row.trackers.kind = "invalid" THEN [kind |-> "none"]
        ELSE IF row.trackers.kind \in {"null", "number", "true", "nested"} THEN [kind |-> "raise"]
        ELSE IF missing_trackers # <<>> \/ found_relevant_trackers # <<>>
        THEN [kind |-> "item",
              item |-> [name |-> row.name,
                        info_hash |-> row.info_hash,
                        path |-> row.save_path,
                        missing_trackers |-> missing_trackers,
                        found_trackers |-> found_relevant_trackers,
                        categories |-> parse_categories(row.category),
                        is_season |-> season.is_season,
                        episode_count |-> season.episode_count,
                        files_json |-> row.files,
                        consolidated_episodes |-> <<>>,
                        duplicates |-> <<>>]]
        ELSE [kind |-> "none"]

\* groups[key].append(...) / .extend(...) on a defaultdict(list): the key keeps
\* its place if present, else it is added last
GroupExtend(groups, key, ids) ==
    IF \E k \in 1..Len(groups) : groups[k].key = key
    THEN [k \in 1..Len(groups) |->
            IF groups[k].key = key THEN [groups[k] EXCEPT !.items = @ \o ids] ELSE groups[k]]
    ELSE Append(groups, [key |-> key, items |-> ids])

MergedFound_first(heap, ids) == IF ids = <<>> THEN {} ELSE Range(heap[ids[1]].found_trackers)

\* union of the found_trackers of the items of a list
MergedFound(heap, ids) == UNION {Range(heap[ids[k]].found_trackers) : k \in 1..Len(ids)}

MergedCategories(heap, ids) == UNION {Range(heap[ids[k]].categories) : k \in 1..Len(ids)}

Names(heap, ids) == [k \in 1..Len(ids) |-> heap[ids[k]].name]

MergeSeason_own_found(heap, season, episodes, enabled) ==
    [heap[season] EXCEPT
        !.missing_trackers = sorted(Range(enabled) \ Range(heap[season].found_trackers)),
        !.found_trackers = sorted(Range(heap[season].found_trackers) \cap Range(enabled)),
        !.categories = sorted(Range(heap[season].categories) \cup MergedCategories(heap, episodes)),
        !.consolidated_episodes = IF episodes # <<>> THEN Names(heap, episodes) ELSE @]

\* the update of one season of a group (lines 599-613)
MergeSeason(heap, season, episodes, enabled) ==
    LET merged_found_trackers == Range(heap[season].found_trackers) \cup MergedFound(heap, episodes)
        merged_categories == Range(heap[season].categories) \cup MergedCategories(heap, episodes)
    IN  [heap[season] EXCEPT
            !.missing_trackers = sorted(Range(enabled) \ merged_found_trackers),
            !.found_trackers = sorted(merged_found_trackers \cap Range(enabled)),
            !.categories = sorted(merged_categories),
            !.consolidated_episodes = IF episodes # <<>> THEN Names(heap, episodes) ELSE @]

\* process_season_episode_preferences, from group g on; st holds the items
\* and content_groups as updated so far
RECURSIVE SeasonGroupsFrom(_, _, _, _)
SeasonGroupsFrom(g, season_groups, enabled, st) ==
    IF g > Len(season_groups) THEN st
    ELSE LET ids == season_groups[g].items
             seasons == SelectSeq(ids, LAMBDA id : st.items[id].is_season)
             episodes == SelectSeq(ids, LAMBDA id : ~st.items[id].is_season)
         IN  IF seasons # <<>>
             THEN SeasonGroupsFrom(g + 1, season_groups, enabled,
                    [items |-> [id \in DOMAIN st.items |->
                                  IF id \in Range(seasons)
                                  THEN MergeSeason(st.items, id, episodes, enabled)
                                  ELSE st.items[id]],
                     content_groups |-> GroupExtend(st.content_groups, season_groups[g].key, seasons)])
             ELSE SeasonGroupsFrom(g + 1, season_groups, enabled,
                    [items |-> st.items,
                     content_groups |-> GroupExtend(st.content_groups, season_groups[g].key, episodes)])

process_season_episode_preferences(season_groups, groups, enabled, heap) ==
    SeasonGroupsFrom(1, season_groups, enabled, [items |-> heap, content_groups |-> groups])

MergeDuplicates_accumulate(heap, ids, enabled) ==
    [heap[ids[1]] EXCEPT
        !.missing_trackers = sorted(Range(enabled) \ MergedFound(heap, ids)),
        !.found_trackers = sorted(MergedFound(heap, ids) \cap Range(enabled)),
        !.duplicates = @ \o Names(heap, ids),
        !.categories = sorted(MergedCategories(heap, ids))]

\* the update of the primary item of a group of duplicates (lines 645-648)
MergeDuplicates(heap, ids, enabled) ==
    [heap[ids[1]] EXCEPT
        !.missing_trackers = sorted(Range(enabled) \ MergedFound(heap, ids)),
        !.found_trackers = sorted(MergedFound(heap, ids) \cap Range(enabled)),
        !.duplicates = Names(heap, ids),
        !.categories = sorted(MergedCategories(heap, ids))]

\* process_content_groups, from group g on; st holds the items and results
RECURSIVE ContentGroupsFrom(_, _, _, _)
ContentGroupsFrom(g, groups, enabled, st) ==
    IF g > Len(groups) THEN st
    ELSE LET ids == groups[g].items
         IN  IF Len(ids) > 1
             THEN IF Range(enabled) \ MergedFound(st.items, ids) # {} \/ MergedFound(st.items, ids) # {}
                  THEN ContentGroupsFrom(g + 1, groups, enabled,
                         [items |-> [st.items EXCEPT ![ids[1]] = MergeDuplicates(st.items, ids, enabled)],
                          results |-> Append(st.results, ids[1])])
                  ELSE ContentGroupsFrom(g + 1, groups, enabled, st)
             ELSE IF st.items[ids[1]].missing_trackers # <<>> \/ st.items[ids[1]].found_trackers # <<>>
                  THEN ContentGroupsFrom(g + 1, groups, enabled,
                         [items |-> st.items, results |-> Append(st.results, ids[1])])
                  ELSE ContentGroupsFrom(g + 1, groups, enabled, st)

process_content_groups(groups, enabled, heap) ==
    ContentGroupsFrom(1, groups, enabled, [items |-> heap, results |-> <<>>])

(***************************************************************************)
(* Category filter, display and the commands file                          *)
(***************************************************************************)

\* str(n) for n >= 0
RECURSIVE str(_)
str(n) == IF n < 10 THEN <<DIGITCHARS[n + 1]>> ELSE str(n \div 10) \o <<DIGITCHARS[(n % 10) + 1]>>

\* sep.join(parts)
RECURSIVE Join(_, _)
Join(parts, sep) ==
    IF parts = <<>> THEN <<>>
    ELSE IF Len(parts) = 1 THEN parts[1]
    ELSE parts[1] \o sep \o Join(Tail(parts), sep)

\* str(Path(base) / name) for a base without "." and ".." parts
PathJoin(base, name) ==
    IF name = <<>> THEN base
    ELSE IF name[1] = "/" THEN name
    ELSE IF base[Len(base)] = "/" THEN base \o name
    ELSE base \o <<"/">> \o name

\* [c.strip() for cat in categories for c in cat.split(sep) if c.strip()]
RECURSIVE SplitEach(_, _)
SplitEach(categories, sep) ==
    IF categories = <<>> THEN <<>>
    ELSE LET parts == Split(Head(categories), sep)
             kept  == SelectSeq(parts, LAMBDA c : strip(c) # <<>>)
         IN  [k \in 1..Len(kept) |-> strip(kept[k])] \o SplitEach(Tail(categories), sep)

CATEGORY_STRIP_CHARS == {"'", "\"", "[", "]", "{", "}", "(", ")"}

\* s.strip(chars)
StripChars(s, chars) ==
    LET keep == {i \in 1..Len(s) : s[i] \notin chars}
    IN  IF keep = {} THEN <<>> ELSE SubSeq(s, Min(keep), Max(keep))

\* extract_unique_categories_from_db over the distinct values of the category column
extract_unique_categories_from_db(category_column) ==
    LET category_data == category_column \ {<<>>, <<"n","u","l","l">>}
        Pieces(category) == SplitEach(SplitEach(SplitEach(SplitEach(<<strip(category)>>, ","), ";"), "|"), "/")
        cleaned == UNION {{StripChars(strip(Pieces(c)[k]), CATEGORY_STRIP_CHARS) : k \in 1..Len(Pieces(c))} : c \in category_data}
    IN  sorted({c \in cleaned : c # <<>> /\ lower(c) \notin {<<"n","u","l","l">>, <<"n","o","n","e">>}})

\* filter_results_by_categories for a non-empty selection: the results with
\* a category that equals a selected one, ignoring case and outer blanks
filter_results_by_categories(result_ids, selected_categories, heap) ==
    SelectSeq(result_ids, LAMBDA id :
        \E s \in Range(selected_categories) : \E c \in Range(heap[id].categories) :
            strip(lower(s)) = strip(lower(c)))

SortKey_case_sensitive(name) == name

\* key=lambda x: x['name'].lower()
SortKey(name) == lower(name)

\* sorted(results, key=...): stable, so items of equal key keep their order
RECURSIVE SortedByName(_, _)
SortedByName(result_ids, heap) ==
    IF result_ids = <<>> THEN <<>>
    ELSE LET first == Min({i \in 1..Len(result_ids) :
                             \A j \in 1..Len(result_ids) :
                                 ~StrLess(SortKey(heap[result_ids[j]].name), SortKey(heap[result_ids[i]].name))})
         IN  <<result_ids[first]>> \o
             SortedByName(SubSeq(result_ids, 1, first - 1) \o SubSeq(result_ids, first + 1, Len(result_ids)), heap)

\* display_results: the names printed, group after group
display_results(result_ids, heap) == Names(heap, SortedByName(result_ids, heap))

\* datetime.now() as written into the header of the commands file
NOW == <<"2","0","2","6","-","0","1","-","0","1"," ","0","0",":","0","0",":","0","0",".","0","0","0","0","0","0">>

COMMA == <<",">>

COMMA_SPACE == <<",", " ">>

NONE_TEXT == <<"N","o","n","e">>

\* the comment lines written for one item when the output is not clean
ItemComments(item) ==
    << <<"#"," ">> \o item.name >>
    \o (IF item.is_season /\ item.episode_count # 0
        THEN << <<"#"," ","S","e","a","s","o","n"," ","w","i","t","h"," ">> \o str(item.episode_count) \o <<" ","e","p","i","s","o","d","e","s">> >> ELSE <<>>)
    \o (IF item.consolidated_episodes # <<>>
        THEN << <<"#"," ","C","o","n","s","o","l","i","d","a","t","e","d"," ","e","p","i","s","o","d","e","s",":"," ">> \o Join(item.consolidated_episodes, COMMA_SPACE) >> ELSE <<>>)
    \o (IF item.duplicates # <<>>
        THEN << <<"#"," ","D","u","p","l","i","c","a","t","e","s",":"," ">> \o Join(item.duplicates, COMMA_SPACE) >> ELSE <<>>)
    \o (IF item.categories # <<>>
        THEN << <<"#"," ","C","a","t","e","g","o","r","i","e","s",":"," ">> \o Join(item.categories, COMMA_SPACE) >> ELSE <<>>)
    \o << <<"#"," ","M","i","s","s","i","n","g"," ","f","r","o","m",":"," ">> \o (IF item.missing_trackers # <<>> THEN Join(item.missing_trackers, COMMA_SPACE) ELSE NONE_TEXT) >>
    \o << <<"#"," ","F","o","u","n","d"," ","o","n",":"," ">> \o (IF item.found_trackers # <<>> THEN Join(item.found_trackers, COMMA_SPACE) ELSE NONE_TEXT) >>

\* the upload command of an item, or the comment written when nothing is missing
CommandLine(item) ==
    IF item.missing_trackers # <<>>
    THEN <<"p","y","t","h","o","n","3"," ","u","p","l","o","a","d",".","p","y"," ","\"">> \o PathJoin(item.path, item.name) \o <<"\""," ","-","-","t","r","a","c","k","e","r","s"," ">> \o Join(item.missing_trackers, COMMA)
    ELSE <<"#"," ","N","o"," ","m","i","s","s","i","n","g"," ","t","r","a","c","k","e","r","s"," ","f","o","r",":"," ">> \o PathJoin(item.path, item.name)

\* the lines written for the items of the sorted list, from item i on
RECURSIVE ItemLinesFrom(_, _, _, _)
ItemLinesFrom(i, sorted_ids, heap, clean_output) ==
    IF i > Len(sorted_ids) THEN <<>>
    ELSE (IF clean_output THEN <<>> ELSE ItemComments(heap[sorted_ids[i]]))
         \o <<CommandLine(heap[sorted_ids[i]])>>
         \o (IF clean_output THEN <<>> ELSE << <<>> >>)
         \o ItemLinesFrom(i + 1, sorted_ids, heap, clean_output)

\* generate_upload_commands: the lines of the file, an empty line being <<>>
generate_upload_commands(result_ids, heap, clean_output) ==
    (IF clean_output THEN <<>>
     ELSE << <<"#"," ","C","r","o","s","s","-","P","o","l","l","i","n","a","t","o","r",":"," ","G","e","n","e","r","a","t","e","d"," ">> \o NOW,
             <<"#"," ","T","o","t","a","l"," ","f","i","l","e","s","/","f","o","l","d","e","r","s"," ","n","e","e","d","i","n","g"," ","u","p","l","o","a","d",":"," ">> \o str(Len(result_ids)),
             <<>> >>)
    \o ItemLinesFrom(1, SortedByName(result_ids, heap), heap, clean_output)

(***************************************************************************)
(* The database and the configuration file                                 *)
(***************************************************************************)

SAVE_PATH == <<"/","d">>

MOVIES == <<"M","o","v","i","e","s">>

TV_MOVIES == <<"T","V",","," ","M","o","v","i","e","s">>

EPISODE_FILES == << <<"s",".","S","0","1","E","0","1",".","m","k","v">>, <<"s",".","S","0","1","E","0","2",".","m","k","v">> >>

\* json.loads(trackers): a list of strings ("list"), a JSONDecodeError
\* ("invalid"), null, a number, true, or a list that also holds a nested list
\* ("nested", value being its strings)
TrackerList_(domains) == [kind |-> "list", value |-> domains]

NotAList(kind) == [kind |-> kind, value |-> <<>>]

Row(hash, name, trackers, files, category, save_path) ==
    [info_hash |-> hash, name |-> name, trackers |-> trackers, files |-> files,
     category |-> category, save_path |-> save_path]

\* the rows a database is drawn from; info_hash is the position in Pool
Pool == <<
    Row(1,  <<"a",".","m","k","v">>, TrackerList_(<<BLUTOPIA_CC>>), <<>>, MOVIES, SAVE_PATH),
    Row(2,  <<"A",".","M","K","V">>, TrackerList_(<<AITHER_CC, UNKNOWN_XYZ>>), <<>>, TV_MOVIES, SAVE_PATH),
    Row(3,  <<"a",".","m","k","v">>, TrackerList_(<<LST_GG>>), <<>>, <<>>, SAVE_PATH),
    Row(4,  <<"a",".","m","p","4">>, TrackerList_(<<AITHER_CC>>), <<>>, MOVIES, SAVE_PATH),
    Row(5,  <<"s",".","S","0","1">>, TrackerList_(<<AITHER_CC>>), EPISODE_FILES, <<"T","V">>, SAVE_PATH),
    Row(6,  <<"s",".","S","0","1","E","0","1",".","m","k","v">>, TrackerList_(<<BLUTOPIA_CC>>), <<>>, <<"T","V">>, SAVE_PATH),
    Row(7,  <<"S","_","S","0","1","E","0","1",".","M","K","V">>, TrackerList_(<<LST_GG>>), EPISODE_FILES, <<>>, SAVE_PATH),
    Row(8,  <<"c",".","m","k","v">>, NotAList("invalid"), <<>>, MOVIES, SAVE_PATH),
    Row(9,  <<"d",".","m","k","v">>, NotAList("null"), <<>>, MOVIES, SAVE_PATH),
    Row(10, <<"f",".","m","k","v">>, NotAList("number"), <<>>, MOVIES, SAVE_PATH),
    Row(11, <<"M","-","2","0","2","0">>, TrackerList_(<<AITHER_CC, BLUTOPIA_CC>>), <<>>, MOVIES, SAVE_PATH),
    Row(12, <<"g",".","m","k","v">>, TrackerList_(<<LST_GG>>), <<>>, MOVIES, <<>>)
>>

\* the largest number of rows of a database
MaxRows == 3

\* ORDER BY name: rows in non-decreasing order of name; rows of equal name
\* come in either order
Databases ==
    {d \in UNION {[1..n -> 1..Len(Pool)] : n \in 0..MaxRows} :
        /\ \A i, j \in 1..Len(d) : i < j => d[i] # d[j]
        /\ \A i \in 1..(Len(d) - 1) : ~StrLess(Pool[d[i + 1]].name, Pool[d[i]].name)}

MissingConfig ==
    [exists |-> FALSE, enabled_trackers |-> <<>>, disabled_trackers |-> <<>>,
     include_single_episodes |-> FALSE, include_folders |-> TRUE, prefer_seasons_over_episodes |-> TRUE,
     banned_groups_enabled |-> TRUE]

\* configuration files: the tracker lists, the FILTERING switches, and
\* enabled of BANNED_GROUPS (true when the section is not in the file)
ConfigFiles ==
    {MissingConfig} \cup
    {[exists |-> TRUE, enabled_trackers |-> t[1], disabled_trackers |-> t[2],
      include_single_episodes |-> f[1], include_folders |-> f[2], prefer_seasons_over_episodes |-> f[3],
      banned_groups_enabled |-> TRUE] :
        t \in { <<<<>>, <<>>>>,
                << <<"A","I","T","H","E","R",","," ","b","l","u">>, <<>> >>,
                << <<>>, <<"L","S","T">> >> },
        f \in { <<FALSE, TRUE, TRUE>>, <<TRUE, TRUE, TRUE>>, <<TRUE, FALSE, FALSE>> }}

(***************************************************************************)
(* Banned release groups (src/bannedgroups_py.py): the release group of a   *)
(* name, the banned list of a tracker (memory, file, API) and the filter    *)
(***************************************************************************)

\* [A-Za-z0-9]
ALNUM == UpperSet \cup LowerSet \cup DIGITS

\* [\.\-\s]
SEPARATORS == {".", "-"} \cup WHITESPACE

\* re.findall(r'\[([^\]]+)\]$', name) and r'\(([^)]+)\)$': the groups of the
\* first match as a list of at most one element
EnclosedAtEnd(name, open, close) ==
    LET starts == {i \in 1..(Len(name) - 2) :
                      /\ name[i] = open
                      /\ name[Len(name)] = close
                      /\ \A j \in (i + 1)..(Len(name) - 1) : name[j] # close}
    IN  IF starts = {} THEN <<>> ELSE <<SubSeq(name, Min(starts) + 1, Len(name) - 1)>>

\* re.findall(r'\[([^\]]+)\]', name): the first match
Enclosed(name, open, close) ==
    LET starts == {i \in 1..(Len(name) - 2) :
                      /\ name[i] = open
                      /\ name[i + 1] # close
                      /\ \E j \in (i + 2)..Len(name) : name[j] = close}
    IN  IF starts = {} THEN <<>>
        ELSE <<SubSeq(name, Min(starts) + 1,
                      Min({j \in (Min(starts) + 2)..Len(name) : name[j] = close}) - 1)>>

\* re.findall(r'-([A-Za-z0-9]+)$', name) and r'\.([A-Za-z0-9]+)$'
AfterLast(name, mark) ==
    LET starts == {i \in 1..(Len(name) - 1) :
                      /\ name[i] = mark
                      /\ \A j \in (i + 1)..Len(name) : name[j] \in ALNUM}
    IN  IF starts = {} THEN <<>> ELSE <<SubSeq(name, Min(starts) + 1, Len(name))>>

\* the length of the run of [A-Za-z0-9] that starts at position s
RunLength(name, s) == Min({j \in s..(Len(name) + 1) : j > Len(name) \/ name[j] \notin ALNUM}) - s

MIN_TOKEN == 2

MAX_TOKEN == 15

\* re.findall(r'(?:^|[\.\-\s])([A-Za-z0-9]{2,15})(?:[\.\-\s]|$)', name): the
\* first run of 2 to 15 characters between separators or the ends
FirstToken(name) ==
    LET starts == {s \in 1..Len(name) :
                      /\ s = 1 \/ name[s - 1] \in SEPARATORS
                      /\ RunLength(name, s) >= MIN_TOKEN
                      /\ RunLength(name, s) <= MAX_TOKEN
                      /\ s + RunLength(name, s) > Len(name) \/ name[s + RunLength(name, s)] \in SEPARATORS}
    IN  IF starts = {} THEN <<>> ELSE <<SubSeq(name, Min(starts), Min(starts) + RunLength(name, Min(starts)) - 1)>>

\* the literal alternatives of the false_positives patterns (lines 79-91)
FALSE_POSITIVES == {
    <<"7","2","0","p">>, <<"1","0","8","0","p">>, <<"2","1","6","0","p">>, <<"4","k">>,
    <<"x","2","6","4">>, <<"x","2","6","5">>, <<"h","2","6","4">>, <<"h","2","6","5">>, <<"x","v","i","d">>, <<"d","i","v","x">>,
    <<"a","a","c">>, <<"a","c","3">>, <<"d","t","s">>, <<"f","l","a","c">>, <<"m","p","3">>,
    <<"b","l","u","r","a","y">>, <<"b","d","r","i","p">>, <<"d","v","d","r","i","p">>, <<"w","e","b","r","i","p">>, <<"w","e","b","d","l">>, <<"h","d","t","v">>, <<"p","d","t","v">>,
    <<"t","h","e">>, <<"a","n","d">>, <<"o","f">>, <<"i","n">>, <<"t","o">>, <<"f","o","r">>, <<"w","i","t","h">>, <<"b","y">>,
    <<"s","e","a","s","o","n">>, <<"e","p","i","s","o","d","e">>,
    <<"h","d">>, <<"s","d">>, <<"u","h","d">>, <<"h","d","r">>, <<"s","d","r">> }

AllDigits(s, from) == from <= Len(s) /\ \A i \in from..Len(s) : s[i] \in DIGITS

\* str.isupper(): a cased character, and no lower-case one
isupper(s) == (\E i \in 1..Len(s) : s[i] \in UpperSet) /\ (\A i \in 1..Len(s) : s[i] \notin LowerSet)

\* _is_likely_release_group(candidate)
is_likely_release_group(candidate) ==
    /\ Len(candidate) >= 2
    /\ ~(Len(candidate) = 4 /\ AllDigits(candidate, 1))
    /\ lower(candidate) \notin FALSE_POSITIVES
    /\ ~(lower(candidate)[1] \in {"s", "e"} /\ AllDigits(candidate, 2))
    /\ ~(SubSeq(lower(candidate), 1, 2) = <<"e","p">> /\ AllDigits(candidate, 3))
    /\ \A i \in 1..Len(candidate) : candidate[i] \in ALNUM \cup {"-", "_", "."}
    /\ ~(Len(candidate) < 3 /\ ~isupper(candidate))

\* the findall of each pattern on the stem, in the order of the list
Patterns(name) ==
    << EnclosedAtEnd(name, "[", "]"), Enclosed(name, "[", "]"), AfterLast(name, "-"),
       EnclosedAtEnd(name, "(", ")"), AfterLast(name, "."), FirstToken(name) >>

\* the loop over the patterns (lines 52-62), from pattern k on
RECURSIVE FirstLikely(_, _)
FirstLikely(k, found) ==
    IF k > Len(found) THEN None
    ELSE IF found[k] # <<>> /\ is_likely_release_group(strip(found[k][1])) THEN strip(found[k][1])
    ELSE FirstLikely(k + 1, found)

\* BannedGroupsChecker.extract_release_group_from_name(torrent_name)
extract_release_group_from_name(torrent_name) ==
    IF torrent_name = <<>> THEN None ELSE FirstLikely(1, Patterns(PathStem(torrent_name)))

\* times are hours on the clock of datetime.now(); a date is the number of
\* its day. timedelta(hours=24) and timedelta(days=1):
CACHE_HOURS == 24

\* datetime.now().strftime("%Y-%m-%d")
strftime(time) == time \div 24

\* datetime.strptime(date, '%Y-%m-%d'): midnight of that day
strptime(date) == date * 24

\* the trackers _fetch_banned_groups_from_api has a URL for
API_TRACKERS == {<<"A","I","T","H","E","R">>, <<"L","S","T">>}

\* a BannedGroupsChecker and the files under data/banned: the in-memory
\* cache, the files by tracker, and the HTTP fetches started so far
Checker(cache, files, started) == [cache |-> cache, files |-> files, fetches |-> started]

\* the loop of lines 189-215 over the pages the API returns, from page k on:
\* an exception gives up everything, a status other than 200 ends the loop
RECURSIVE ReadPages(_, _, _)
ReadPages(pages, k, collected) ==
    IF k > Len(pages) THEN collected
    ELSE IF pages[k].kind = "error" THEN <<>>
    ELSE IF pages[k].kind = "status" THEN collected
    ELSE ReadPages(pages, k + 1, collected \o pages[k].names)

\* _save_banned_groups_to_file(tracker, banned_groups)
save_banned_groups_to_file(tracker, banned_groups, files, time) ==
    (tracker :> [kind |-> "object", last_updated |-> strftime(time),
                 banned_groups |-> Join(banned_groups, COMMA_SPACE)]) @@ files

\* _fetch_banned_groups_from_api(tracker): the groups, the checker after the
\* call, and whether the lookup of the API key raised
fetch_banned_groups_from_api(tracker, c, config, http, time) ==
    IF tracker \notin API_TRACKERS \/ tracker \notin DOMAIN config.TRACKERS
    THEN [groups |-> <<>>, checker |-> c, raised |-> FALSE]
    ELSE IF config.TRACKERS[tracker].kind # "dict"
    THEN [groups |-> <<>>, checker |-> c, raised |-> TRUE]
    ELSE IF strip(config.TRACKERS[tracker].api_key) = <<>>
    THEN [groups |-> <<>>, checker |-> c, raised |-> FALSE]
    ELSE LET banned_groups == ReadPages(http[tracker], 1, <<>>)
             started == Append(c.fetches, [tracker |-> tracker, at |-> time])
         IN  [groups  |-> banned_groups,
              checker |-> IF banned_groups # <<>>
                          THEN Checker(c.cache, save_banned_groups_to_file(tracker, banned_groups, c.files, time), started)
                          ELSE Checker(c.cache, c.files, started),
              raised  |-> FALSE]

\* [group.strip() for group in banned_groups_str.split(',')], [] for ''
FileGroups(banned_groups_str) ==
    IF banned_groups_str = <<>> THEN <<>>
    ELSE LET parts == Split(banned_groups_str, ",")
         IN  [k \in 1..Len(parts) |-> strip(parts[k])]

\* self.banned_groups_cache[tracker_upper] = {'groups': ..., 'timestamp': now}
Cached(c, tracker_upper, groups, time) ==
    Checker((tracker_upper :> [groups |-> groups, timestamp |-> time]) @@ c.cache, c.files, c.fetches)

\* lines 148-161: the fetch, whose exceptions are caught; only a list with
\* groups is cached
FetchAndCache(tracker_upper, fetched, time) ==
    [groups       |-> fetched.groups,
     checker      |-> IF fetched.groups # <<>> THEN Cached(fetched.checker, tracker_upper, fetched.groups, time)
                      ELSE fetched.checker,
     fetch_called |-> TRUE,
     raised       |-> FALSE]

\* lines 126-146 for a file whose JSON is an object with a date
FileIsRecent_same_week(file, time) == time - strptime(file.last_updated) < 7 * CACHE_HOURS

FileIsRecent(file, time) == time - strptime(file.last_updated) < CACHE_HOURS

\* BannedGroupsChecker.load_banned_groups_for_tracker(tracker): the list it
\* returns, the checker after the call, whether _fetch_banned_groups_from_api
\* was called, and whether the call raised (a file whose JSON is no object:
\* AttributeError is not among the exceptions caught at line 144; a file that
\* is no JSON or has no date raises one that is, and the fetch follows)
load_banned_groups_for_tracker(tracker, c, config, http, time) ==
    LET tracker_upper == upper(tracker)
    IN  IF tracker_upper \in DOMAIN c.cache /\ time - c.cache[tracker_upper].timestamp < CACHE_HOURS
        THEN [groups |-> c.cache[tracker_upper].groups, checker |-> c, fetch_called |-> FALSE, raised |-> FALSE]
        ELSE IF tracker_upper \in DOMAIN c.files /\ c.files[tracker_upper].kind = "array"
        THEN [groups |-> <<>>, checker |-> c, fetch_called |-> FALSE, raised |-> TRUE]
        ELSE IF tracker_upper \in DOMAIN c.files /\ c.files[tracker_upper].kind = "object"
                /\ FileIsRecent(c.files[tracker_upper], time)
        THEN [groups       |-> FileGroups(c.files[tracker_upper].banned_groups),
              checker      |-> Cached(c, tracker_upper, FileGroups(c.files[tracker_upper].banned_groups), time),
              fetch_called |-> FALSE,
              raised       |-> FALSE]
        ELSE FetchAndCache(tracker_upper, fetch_banned_groups_from_api(tracker_upper, c, config, http, time), time)

GROUP_QUOTED == <<"G","r","o","u","p"," ","'">>

IS_BANNED_ON == <<"'"," ","i","s"," ","b","a","n","n","e","d"," ","o","n"," ">>

IsBanned_same_case(release_group, banned_groups) ==
    \E k \in 1..Len(banned_groups) : banned_groups[k] = release_group

\* lines 270-274: the comparison with the banned groups, ignoring case
IsBanned(release_group, banned_groups) ==
    \E k \in 1..Len(banned_groups) : lower(banned_groups[k]) = lower(release_group)

\* lines 266-276, for a name with a release group
CheckGroup(release_group, tracker, loaded) ==
    [is_banned  |-> ~loaded.raised /\ IsBanned(release_group, loaded.groups),
     group_name |-> release_group,
     reason     |-> IF ~loaded.raised /\ IsBanned(release_group, loaded.groups)
                    THEN GROUP_QUOTED \o release_group \o IS_BANNED_ON \o tracker ELSE None,
     checker    |-> loaded.checker,
     raised     |-> loaded.raised]

\* BannedGroupsChecker.is_banned_for_tracker(torrent_name, tracker)
is_banned_for_tracker(torrent_name, tracker, c, config, http, time) ==
    LET release_group == extract_release_group_from_name(torrent_name)
    IN  IF torrent_name = <<>> \/ tracker = <<>> \/ release_group = None
        THEN [is_banned |-> FALSE, group_name |-> None, reason |-> None, checker |-> c, raised |-> FALSE]
        ELSE CheckGroup(release_group, tracker, load_banned_groups_for_tracker(tracker, c, config, http, time))

\* lines 312-326: one tracker of the inner loop
CheckTracker(acc, tracker, checked) ==
    [banned_info |-> IF checked.is_banned
                     THEN Append(acc.banned_info, [tracker |-> tracker, group |-> checked.group_name, reason |-> checked.reason])
                     ELSE acc.banned_info,
     checker     |-> checked.checker,
     raised      |-> checked.raised]

\* the inner loop over trackers_to_check, from tracker k on
RECURSIVE CheckTrackers(_, _, _, _, _, _, _)
CheckTrackers(torrent_name, trackers_to_check, k, acc, config, http, time) ==
    IF k > Len(trackers_to_check) \/ acc.raised THEN acc
    ELSE CheckTrackers(torrent_name, trackers_to_check, k + 1,
                       CheckTracker(acc, trackers_to_check[k],
                                    is_banned_for_tracker(torrent_name, trackers_to_check[k], acc.checker, config, http, time)),
                       config, http, time)

\* lines 328-339: the torrent goes to the banned or to the passed list and
\* is counted there
FilterTorrent(acc, id, checked) ==
    [filtered_torrents |-> IF checked.banned_info = <<>> THEN Append(acc.filtered_torrents, id) ELSE acc.filtered_torrents,
     banned_torrents   |-> IF checked.banned_info # <<>>
                           THEN Append(acc.banned_torrents, [info_hash |-> id, banned_info |-> checked.banned_info])
                           ELSE acc.banned_torrents,
     filtering_stats   |-> IF checked.banned_info # <<>>
                           THEN [acc.filtering_stats EXCEPT !.banned_count = @ + 1]
                           ELSE [acc.filtering_stats EXCEPT !.passed_count = @ + 1],
     checker           |-> checked.checker,
     raised            |-> checked.raised]

\* the loop over the torrents (lines 306-339), from torrent i on
RECURSIVE FilterFrom(_, _, _, _, _, _, _, _)
FilterFrom(torrents, heap, trackers_to_check, i, acc, config, http, time) ==
    IF i > Len(torrents) \/ acc.raised THEN acc
    ELSE FilterFrom(torrents, heap, trackers_to_check, i + 1,
                    FilterTorrent(acc, torrents[i],
                                  CheckTrackers(heap[torrents[i]].name, trackers_to_check, 1,
                                                [banned_info |-> <<>>, checker |-> acc.checker, raised |-> FALSE],
                                                config, http, time)),
                    config, http, time)

\* BannedGroupsChecker.filter_banned_torrents(torrents, trackers_to_check):
\* the passed list, the banned list with each banned_info, the counters of
\* filtering_stats (a dict without keys when there is nothing to check), the
\* checker after the call, and whether the call raised
filter_banned_torrents(torrents, heap, trackers_to_check, c, config, http, time) ==
    IF torrents = <<>> \/ trackers_to_check = <<>>
    THEN [filtered_torrents |-> torrents, banned_torrents |-> <<>>, filtering_stats |-> <<>>,
          checker |-> c, raised |-> FALSE]
    ELSE FilterFrom(torrents, heap, trackers_to_check, 1,
                    [filtered_torrents |-> <<>>, banned_torrents |-> <<>>,
                     filtering_stats |-> [total_checked |-> Len(torrents), banned_count |-> 0, passed_count |-> 0],
                     checker |-> c, raised |-> FALSE],
                    config, http, time)

(***************************************************************************)
(* The analysis of a run with --sync (analyze_missing_trackers_sync; Steps  *)
(* 1 to 5 of analyze_missing_trackers are the same statements), and the    *)
(* part of main() that reports the list it returns                         *)
(***************************************************************************)

\* a line of output: the message and the number it carries (0 if none)
Say(msg, n) == [msg |-> msg, n |-> n]

\* --run --sync
RunArgs == [test_release_group |-> FALSE, show_config |-> FALSE, run |-> TRUE, debug_trackers |-> FALSE,
            sync |-> TRUE, no_banned_filter |-> FALSE]

\* the locals of an analysis before its first step
FreshLocals ==
    /\ domain_to_abbrev = <<>>
    /\ available_trackers = <<>>
    /\ enabled_trackers = <<>>
    /\ torrent_rows = <<>>
    /\ row_index = 0
    /\ items = <<>>
    /\ content_groups = <<>>
    /\ season_episode_groups = <<>>
    /\ results = <<>>
    /\ loop_groups = <<>>

\* the process before main() has reported anything
FreshProcess ==
    /\ exit_code = -1
    /\ stdout = <<>>
    /\ connections = 0
    /\ files_written = {}
    /\ displayed = <<>>
    /\ commands = <<>>
    /\ run = 1
    /\ first_results = <<>>
    /\ second_pass = <<>>
    /\ domain = <<>>
    /\ abbrev = None
    /\ rpc = "idle"

\* no name has been given to the extraction
NoExtraction ==
    /\ test_torrent = <<>>
    /\ extracted_group = None

\* no checker yet, no file under data/banned, no tracker section for the
\* checker; the clock is at midnight of day 1
NoChecker ==
    /\ now = strptime(1)
    /\ banned_groups_cache = <<>>
    /\ banned_files = <<>>
    /\ api = <<>>
    /\ banned_groups_config = [TRACKERS |-> <<>>]
    /\ fetches = <<>>
    /\ last_call = [op |-> "none"]
    /\ calls = 0
    /\ next_cursor = None
    /\ all_data = <<>>

FreshChecker == NoExtraction /\ NoChecker

\* main() was called with --run --sync, the database exists, the analysis starts
Init ==
    /\ db \in Databases
    /\ config_file \in ConfigFiles
    /\ args = RunArgs
    /\ db_exists = TRUE
    /\ db_readable = TRUE
    /\ pc = "mapping"
    /\ FreshLocals
    /\ FreshProcess
    /\ FreshChecker

\* the category query followed by a DELETE that is committed
execute_and_delete(query, table, readable) ==
    [rows     |-> IF ~readable THEN <<>>
                  ELSE IF query = "torrents" THEN SelectSeq(table, LAMBDA h : Pool[h].save_path # <<>>)
                  ELSE table,
     raised   |-> ~readable,
     database |-> IF query = "category" THEN <<>> ELSE table]

\* cursor.execute(<SELECT ...>); cursor.fetchall() on a connection that is
\* closed or dropped without a commit: the rows selected (for "torrents" the
\* ones with a save_path, lines 687-696; else the ones of the column, lines
\* 382-395), whether the statement raised, and the table as the call leaves it
execute(query, table, readable) ==
    [rows     |-> IF ~readable THEN <<>>
                  ELSE IF query = "torrents" THEN SelectSeq(table, LAMBDA h : Pool[h].save_path # <<>>)
                  ELSE table,
     raised   |-> ~readable,
     database |-> table]

\* the except clause of extract_unique_items_from_db (lines 399-401)
ExtractionErrors(selected) == IF selected.raised THEN <<Say("Error extracting unique", 0)>> ELSE <<>>

\* the except clause of the analysis: report and return [], []
Abort ==
    /\ pc' = "error"
    /\ results' = <<>>
    /\ stdout' = Append(stdout, Say("Error analyzing missing trackers", 0))

\* sqlite3.connect and Step 1: build_comprehensive_tracker_mapping(), which
\* opens its own connection. The extraction query skips a trackers column
\* that is 'null'; iterating a number or true raises.
BuildMapping ==
    /\ pc = "mapping"
    /\ connections' = connections + 2
    /\ LET trackers_data == execute("trackers", db, db_readable)
       IN  /\ db' = trackers_data.database
           /\ IF \E i \in 1..Len(trackers_data.rows) : Pool[trackers_data.rows[i]].trackers.kind \in {"number", "true"}
              THEN /\ Abort
                   /\ UNCHANGED mappingVars
              ELSE LET lists == {Pool[trackers_data.rows[i]].trackers.value :
                                    i \in {j \in 1..Len(trackers_data.rows) : Pool[trackers_data.rows[j]].trackers.kind \in {"list", "nested"}}}
                       m == build_comprehensive_tracker_mapping(extract_unique_trackers(lists))
                   IN  /\ domain_to_abbrev' = m.domain_to_abbrev
                       /\ available_trackers' = m.mapped_trackers
                       /\ IF m.mapped_trackers = <<>>
                          THEN /\ pc' = "done"
                               /\ stdout' = Append(stdout \o ExtractionErrors(trackers_data),
                                                   Say("No trackers found in database that match TRACKER_MAPPING", 0))
                          ELSE /\ pc' = "config"
                               /\ stdout' = stdout \o ExtractionErrors(trackers_data)
                       /\ UNCHANGED results
    /\ UNCHANGED <<pagingVars, bannedVars, resolverVars, config_file, enabled_trackers, torrent_rows, row_index, items,
                   content_groups, season_episode_groups>>
    /\ UNCHANGED <<args, db_exists, db_readable, exit_code, files_written, outputVars, repeatVars>>

\* Step 2: load_config(available_trackers), get_enabled_trackers_from_config.
\* Without a configuration file load_config makes the directory and calls
\* create_default_config, which raises NameError (line 205).
LoadConfig ==
    /\ pc = "config"
    /\ IF ~config_file.exists
       THEN /\ Abort
            /\ files_written' = files_written \cup {"config_dir"}
            /\ UNCHANGED enabled_trackers
       ELSE /\ enabled_trackers' = get_enabled_trackers_from_config(config_file, available_trackers)
            /\ pc' = "query"
            /\ UNCHANGED <<results, stdout, files_written>>
    /\ UNCHANGED <<pagingVars, bannedVars, resolverVars, mappingVars, db, config_file, torrent_rows, row_index, items,
                   content_groups, season_episode_groups>>
    /\ UNCHANGED <<args, db_exists, db_readable, exit_code, connections, outputVars, repeatVars>>

\* Step 3: the query for the rows with a save_path
QueryTorrents ==
    /\ pc = "query"
    /\ LET selected == execute("torrents", db, db_readable)
       IN  /\ db' = selected.database
           /\ IF selected.raised
              THEN /\ Abort
                   /\ UNCHANGED torrent_rows
              ELSE /\ torrent_rows' = selected.rows
                   /\ IF selected.rows = <<>>
                      THEN /\ pc' = "done"
                           /\ stdout' = Append(stdout, Say("No torrents with paths and trackers found", 0))
                      ELSE /\ pc' = "rows"
                           /\ UNCHANGED stdout
                   /\ UNCHANGED results
    /\ UNCHANGED <<pagingVars, bannedVars, resolverVars, mappingVars, config_file, enabled_trackers, row_index, items,
                   content_groups, season_episode_groups>>
    /\ UNCHANGED <<args, db_exists, db_readable, exit_code, connections, files_written, outputVars, repeatVars>>

\* one iteration of the loop over torrent_rows (lines 849-865)
ProcessRow ==
    /\ pc = "rows"
    /\ row_index < Len(torrent_rows)
    /\ LET row == Pool[torrent_rows[row_index + 1]]
           item_data == create_torrent_item(row, domain_to_abbrev, enabled_trackers, config_file)
           normalized_name == normalize_content_name(row.name)
       IN  CASE item_data.kind = "raise" ->
                  /\ Abort
                  /\ UNCHANGED <<row_index, items, content_groups, season_episode_groups>>
             [] item_data.kind = "none" ->
                  /\ row_index' = row_index + 1
                  /\ UNCHANGED <<pc, results, stdout, items, content_groups, season_episode_groups>>
             [] item_data.kind = "item" ->
                  /\ row_index' = row_index + 1
                  /\ items' = (row.info_hash :> item_data.item) @@ items
                  /\ IF config_file.prefer_seasons_over_episodes
                        /\ (item_data.item.is_season \/ is_single_episode(row.name))
                     THEN /\ season_episode_groups' = GroupExtend(season_episode_groups, normalized_name, <<row.info_hash>>)
                          /\ UNCHANGED content_groups
                     ELSE /\ content_groups' = GroupExtend(content_groups, normalized_name, <<row.info_hash>>)
                          /\ UNCHANGED season_episode_groups
                  /\ UNCHANGED <<pc, results, stdout>>
    /\ UNCHANGED <<pagingVars, bannedVars, resolverVars, mappingVars, db, config_file, enabled_trackers, torrent_rows>>
    /\ UNCHANGED <<args, db_exists, db_readable, exit_code, connections, files_written, outputVars, repeatVars>>

\* Step 4: process_season_episode_preferences, when seasons are preferred and
\* there is a season/episode group
ProcessSeasonEpisodePreferences ==
    /\ pc = "rows"
    /\ row_index = Len(torrent_rows)
    /\ loop_groups' = content_groups
    /\ IF config_file.prefer_seasons_over_episodes /\ season_episode_groups # <<>>
       THEN LET st == process_season_episode_preferences(season_episode_groups, content_groups,
                                                         enabled_trackers, items)
            IN  /\ items' = st.items
                /\ content_groups' = st.content_groups
       ELSE UNCHANGED <<items, content_groups>>
    /\ pc' = "groups"
    /\ UNCHANGED <<pagingVars, bannedVars, resolverVars, mappingVars, db, config_file, enabled_trackers, torrent_rows, row_index,
                   season_episode_groups, results>>
    /\ UNCHANGED <<mainVars, outputVars, run, first_results, second_pass>>

\* Step 5: process_content_groups, and the return of the results
ProcessContentGroups ==
    /\ pc = "groups"
    /\ LET st == process_content_groups(content_groups, enabled_trackers, items)
       IN  /\ items' = st.items
           /\ results' = st.results
    /\ pc' = IF args.sync THEN "done" ELSE "filter"
    /\ UNCHANGED <<pagingVars, bannedVars, resolverVars, mappingVars, db, config_file, enabled_trackers, torrent_rows, row_index,
                   content_groups, season_episode_groups>>
    /\ UNCHANGED <<mainVars, outputVars, repeatVars>>

\* the results as the analysis returns them: the item dictionaries, in order
Returned == [k \in 1..Len(results) |-> items[results[k]]]

\* main() after the analysis, without results (lines 1392-1396)
NoResults ==
    /\ pc \in {"done", "error"}
    /\ results = <<>>
    /\ connections' = connections + 1
    /\ LET category_data == execute("category", db, db_readable)
       IN  /\ db' = category_data.database
           /\ stdout' = Append(stdout \o ExtractionErrors(category_data),
                               Say("No torrents found needing upload to additional trackers", 0))
    /\ exit_code' = 0
    /\ pc' = "exit"
    /\ UNCHANGED <<pagingVars, bannedVars, resolverVars, mappingVars, config_file, enabled_trackers, torrent_rows, row_index, items,
                   content_groups, season_episode_groups, results>>
    /\ UNCHANGED <<args, db_exists, db_readable, files_written, outputVars, repeatVars>>

\* main() after the analysis, with results (lines 1392-1433): --clean and
\* --output, and the categories chosen at the prompt (<<>> for none, also
\* with --no-filter), are read here for the first time
ReportResults ==
    /\ pc = "done"
    /\ results # <<>>
    /\ LET category_data == execute("category", db, db_readable)
           all_db_categories == extract_unique_categories_from_db({Pool[category_data.rows[i]].category : i \in 1..Len(category_data.rows)})
       IN  /\ db' = category_data.database
           /\ \E clean \in BOOLEAN, output \in BOOLEAN,
                 selected_categories \in {<<>>} \cup {<<c>> : c \in Range(all_db_categories)} :
                 LET shown == IF selected_categories = <<>> THEN results
                              ELSE filter_results_by_categories(results, selected_categories, items)
                     found == Say("Found video files/folders needing upload to additional trackers", Len(results))
                 IN  IF shown = <<>>
                     THEN /\ stdout' = stdout \o ExtractionErrors(category_data) \o <<found, Say("No matching results to display.", 0)>>
                          /\ UNCHANGED <<files_written, outputVars>>
                     ELSE /\ displayed' = IF clean THEN <<>> ELSE display_results(shown, items)
                          /\ commands' = IF output THEN generate_upload_commands(shown, items, clean) ELSE commands
                          /\ files_written' = IF output THEN files_written \cup {"log_dir", "commands"} ELSE files_written
                          /\ stdout' = stdout \o ExtractionErrors(category_data) \o <<found>> \o
                                       (IF clean THEN <<>> ELSE <<Say("Analysis complete!", 0)>>)
    /\ connections' = connections + 1
    /\ exit_code' = 0
    /\ pc' = "exit"
    /\ UNCHANGED <<pagingVars, bannedVars, resolverVars, mappingVars, config_file, enabled_trackers, torrent_rows, row_index, items,
                   content_groups, season_episode_groups, results>>
    /\ UNCHANGED <<args, db_exists, db_readable, repeatVars>>

\* process_season_episode_preferences and process_content_groups applied a
\* second time to the groups of the loop, over the items as the first pass
\* left them
SecondPass ==
    /\ pc = "done"
    /\ LET seasons == IF config_file.prefer_seasons_over_episodes /\ season_episode_groups # <<>>
                      THEN process_season_episode_preferences(season_episode_groups, loop_groups,
                                                              enabled_trackers, items)
                      ELSE [items |-> items, content_groups |-> loop_groups]
           st == process_content_groups(seasons.content_groups, enabled_trackers, seasons.items)
       IN  second_pass' = [k \in 1..Len(st.results) |-> st.items[st.results[k]]]
    /\ pc' = "second_pass"
    /\ UNCHANGED <<pagingVars, bannedVars, resolverVars, mappingVars, db, config_file, enabled_trackers, torrent_rows, row_index, items,
                   content_groups, season_episode_groups, results>>
    /\ UNCHANGED <<mainVars, outputVars, loop_groups, run, first_results>>

\* the analysis is called again on the same database and configuration
\* file (the next invocation): its locals are new, the first list is kept
\* for comparison
RunAgain ==
    /\ pc \in {"done", "error"}
    /\ run = 1
    /\ run' = 2
    /\ first_results' = Returned
    /\ pc' = "mapping"
    /\ domain_to_abbrev' = <<>>
    /\ available_trackers' = <<>>
    /\ enabled_trackers' = <<>>
    /\ torrent_rows' = <<>>
    /\ row_index' = 0
    /\ items' = <<>>
    /\ content_groups' = <<>>
    /\ season_episode_groups' = <<>>
    /\ results' = <<>>
    /\ loop_groups' = <<>>
    /\ UNCHANGED <<pagingVars, bannedVars, resolverVars, db, config_file, mainVars, outputVars, second_pass>>

Next ==
    \/ BuildMapping
    \/ LoadConfig
    \/ QueryTorrents
    \/ ProcessRow
    \/ ProcessSeasonEpisodePreferences
    \/ ProcessContentGroups
    \/ NoResults
    \/ ReportResults
    \/ SecondPass
    \/ RunAgain

Spec == Init /\ [][Next]_vars

(***************************************************************************)
(* main(): the command line up to the analysis; --run comes with --sync     *)
(***************************************************************************)

\* the bound on the rows of the database of a whole invocation
MaxMainRows == 1

MainDatabases == {d \in Databases : Len(d) <= MaxMainRows}

MainConfigFiles == {MissingConfig} \cup {c \in ConfigFiles : c.exists /\ c.enabled_trackers = <<>> /\ c.disabled_trackers = <<>> /\ ~c.include_single_episodes}

InitMain ==
    /\ args \in [test_release_group : BOOLEAN, show_config : BOOLEAN, run : BOOLEAN, debug_trackers : BOOLEAN,
                 sync : {TRUE}, no_banned_filter : {FALSE}]
    /\ db_exists \in BOOLEAN
    /\ db_readable \in BOOLEAN
    /\ db_readable => db_exists
    /\ ~db_readable => db = <<>>
    /\ FreshChecker
    /\ db \in MainDatabases
    /\ config_file \in MainConfigFiles
    /\ pc = "main"
    /\ FreshLocals
    /\ FreshProcess

\* sys.exit(code), return from main() (code 0), or an uncaught exception (code 1)
Exit(code) ==
    /\ exit_code' = code
    /\ pc' = "exit"

\* lines 1343-1350: --test-release-group prints the extracted group and returns
Main_TestReleaseGroup ==
    /\ pc = "main"
    /\ IF args.test_release_group
       THEN /\ stdout' = Append(stdout, Say("Extracted group", 0))
            /\ Exit(0)
       ELSE /\ pc' = "show_config"
            /\ UNCHANGED <<stdout, exit_code>>
    /\ UNCHANGED <<pagingVars, bannedVars, resolverVars, mappingVars, db, config_file, enabled_trackers, torrent_rows, row_index, items,
                   content_groups, season_episode_groups, results>>
    /\ UNCHANGED <<args, db_exists, db_readable, connections, files_written, outputVars, repeatVars>>

\* lines 1356-1360: --show-config loads the configuration; without a file
\* load_config raises NameError, which nothing catches
Main_ShowConfig ==
    /\ pc = "show_config"
    /\ IF ~args.show_config
       THEN /\ pc' = "mode"
            /\ UNCHANGED <<stdout, exit_code, files_written>>
       ELSE IF ~config_file.exists
       THEN /\ files_written' = files_written \cup {"config_dir"}
            /\ stdout' = Append(stdout, Say("Traceback: NameError", 0))
            /\ Exit(1)
       ELSE /\ stdout' = Append(stdout, Say("Current Configuration", 0))
            /\ UNCHANGED files_written
            /\ IF ~args.run /\ ~args.debug_trackers
               THEN Exit(0)
               ELSE /\ pc' = "mode"
                    /\ UNCHANGED exit_code
    /\ UNCHANGED <<pagingVars, bannedVars, resolverVars, mappingVars, db, config_file, enabled_trackers, torrent_rows, row_index, items,
                   content_groups, season_episode_groups, results>>
    /\ UNCHANGED <<args, db_exists, db_readable, connections, outputVars, repeatVars>>

\* lines 1362-1364: neither --run nor --debug-trackers
Main_CheckMode ==
    /\ pc = "mode"
    /\ IF ~args.run /\ ~args.debug_trackers
       THEN /\ stdout' = Append(stdout, Say("usage", 0))
            /\ Exit(1)
       ELSE /\ pc' = "database"
            /\ UNCHANGED <<stdout, exit_code>>
    /\ UNCHANGED <<pagingVars, bannedVars, resolverVars, mappingVars, db, config_file, enabled_trackers, torrent_rows, row_index, items,
                   content_groups, season_episode_groups, results>>
    /\ UNCHANGED <<args, db_exists, db_readable, connections, files_written, outputVars, repeatVars>>

\* lines 1366-1368
Main_CheckDatabase ==
    /\ pc = "database"
    /\ IF ~db_exists
       THEN /\ stdout' = Append(stdout, Say("Database not found", 0))
            /\ Exit(1)
       ELSE /\ pc' = "debug"
            /\ UNCHANGED <<stdout, exit_code>>
    /\ UNCHANGED <<pagingVars, bannedVars, resolverVars, mappingVars, db, config_file, enabled_trackers, torrent_rows, row_index, items,
                   content_groups, season_episode_groups, results>>
    /\ UNCHANGED <<args, db_exists, db_readable, connections, files_written, outputVars, repeatVars>>

\* lines 1371-1375: debug_tracker_mapping() extracts the domains and builds
\* the mapping (a connection each), writes its file and catches what is raised
Main_DebugTrackers ==
    /\ pc = "debug"
    /\ IF ~args.debug_trackers
       THEN /\ pc' = "mapping"
            /\ UNCHANGED <<db, stdout, exit_code, connections, files_written>>
       ELSE LET trackers_data == execute("trackers", db, db_readable)
            IN  /\ db' = trackers_data.database
                /\ IF \E i \in 1..Len(trackers_data.rows) : Pool[trackers_data.rows[i]].trackers.kind \in {"number", "true"}
                   THEN /\ connections' = connections + 1
                        /\ files_written' = files_written \cup {"log_dir"}
                        /\ stdout' = Append(stdout, Say("Error in tracker mapping debug", 0))
                   ELSE /\ connections' = connections + 2
                        /\ files_written' = files_written \cup {"log_dir", "debug"}
                        /\ stdout' = Append(stdout \o ExtractionErrors(trackers_data) \o ExtractionErrors(trackers_data),
                                            Say("Detailed tracker mapping analysis written", 0))
                /\ IF ~args.run
                   THEN Exit(0)
                   ELSE /\ pc' = "mapping"
                        /\ UNCHANGED exit_code
    /\ UNCHANGED <<pagingVars, bannedVars, resolverVars, mappingVars, config_file, enabled_trackers, torrent_rows, row_index, items,
                   content_groups, season_episode_groups, results>>
    /\ UNCHANGED <<args, db_exists, db_readable, outputVars, repeatVars>>

NextMain ==
    \/ Main_TestReleaseGroup
    \/ Main_ShowConfig
    \/ Main_CheckMode
    \/ Main_CheckDatabase
    \/ Main_DebugTrackers
    \/ BuildMapping
    \/ LoadConfig
    \/ QueryTorrents
    \/ ProcessRow
    \/ ProcessSeasonEpisodePreferences
    \/ ProcessContentGroups
    \/ NoResults
    \/ ReportResults

SpecMain == InitMain /\ [][NextMain]_vars

(***************************************************************************)
(* Extraction specification: extract_release_group_from_name applied to    *)
(* release names, as --test-release-group and test_banned_groups_checker   *)
(* apply it                                                                *)
(***************************************************************************)

\* what comes before the dash of a release name
ReleaseStems == {
    <<"M","o","v","i","e",".","2","0","2","3",".","1","0","8","0","p",".","B","l","u","R","a","y",".","x","2","6","4">>, <<"S","h","o","w",".","S","0","1","E","0","1",".","7","2","0","p",".","W","E","B","-","D","L",".","x","2","6","4">>, <<"A","n","o","t","h","e","r",".","M","o","v","i","e",".","2","0","2","3",".","2","1","6","0","p",".","W","E","B","-","D","L",".","x","2","6","5">>,
    <<"M","o","v","i","e">>, <<"T","h","e"," ","M","o","v","i","e"," ","2","0","2","3">>, <<"m",".","x","2","6","4">>, <<"x">> }

ReleaseGroups == { <<"S","P","A","R","K","S">>, <<"F","G","T">>, <<"R","A","R","B","G">>, <<"N","T","b">> }

ReleaseExtensions == { <<>>, <<".","m","k","v">>, <<".","m","p","4">> }

\* names that end in -GROUP, with and without a video extension
DashNames == {s \o <<"-">> \o g \o e : s \in ReleaseStems, g \in ReleaseGroups, e \in ReleaseExtensions}

\* names of other forms
OtherNames == {
    <<>>, <<"a",".","m","k","v">>, <<"s",".","S","0","1","E","0","1",".","m","k","v">>, <<"M","-","2","0","2","0">>, <<"[","G","r","p","]"," ","M","o","v","i","e",".","2","0","2","3",".","m","k","v">>, <<"M","o","v","i","e",".","2","0","2","3"," ","[","G","r","p","]",".","m","k","v">>,
    <<"M","o","v","i","e"," ","(","G","r","p",")",".","m","k","v">>, <<"M","o","v","i","e",".","2","0","2","3",".","1","0","8","0","p",".","m","k","v">>, <<"M","o","v","i","e","-","x","2","6","4",".","m","k","v">>, <<"[","S","u","b","]"," ","M","o","v","i","e","-","G","R","P",".","m","k","v">> }

InitExtract ==
    /\ db = <<>>
    /\ config_file = MissingConfig
    /\ args = [RunArgs EXCEPT !.test_release_group = TRUE]
    /\ db_exists = TRUE
    /\ db_readable = TRUE
    /\ pc = "extract"
    /\ FreshLocals
    /\ FreshProcess
    /\ NoChecker
    /\ test_torrent \in DashNames \cup OtherNames
    /\ extracted_group = None

\* extract_release_group(args.test_release_group) and the report of main()
\* (lines 1343-1350)
ExtractReleaseGroup ==
    /\ pc = "extract"
    /\ extracted_group' = extract_release_group_from_name(test_torrent)
    /\ stdout' = Append(stdout, Say("Extracted group", 0))
    /\ exit_code' = 0
    /\ pc' = "extracted"
    /\ UNCHANGED <<resolverVars, mappingVars, db, config_file, enabled_trackers, torrent_rows, row_index, items,
                   content_groups, season_episode_groups, results>>
    /\ UNCHANGED <<args, db_exists, db_readable, connections, files_written, outputVars, repeatVars>>
    /\ UNCHANGED <<test_torrent, now, banned_groups_cache, banned_files, api, banned_groups_config, fetches,
                   last_call, calls, pagingVars>>

NextExtract == ExtractReleaseGroup

SpecExtract == InitExtract /\ [][NextExtract]_vars

(***************************************************************************)
(* Checker specification: a BannedGroupsChecker over the files under       *)
(* data/banned and the API, called as filter_banned_torrents and           *)
(* is_banned_for_tracker call it, while the clock advances and new         *)
(* checkers are created over the same files                                *)
(***************************************************************************)

AITHER == <<"A","I","T","H","E","R">>

BLU == <<"B","L","U">>

\* a result of the analysis, as far as the filter reads it
Torrent(name, missing, found) == [name |-> name, missing_trackers |-> missing, found_trackers |-> found]

\* the results the checker is given, by info_hash
CheckedTorrents ==
    (1 :> Torrent(<<"x","-","G","R","P",".","m","k","v">>, <<AITHER>>, <<BLU>>)) @@
    (2 :> Torrent(<<"y",".","2","0","2","3","-","g","r","p",".","m","k","v">>, <<AITHER, BLU>>, <<>>)) @@
    (3 :> Torrent(<<"a",".","m","k","v">>, <<BLU>>, <<AITHER>>)) @@
    (4 :> Torrent(<<"z","-","O","K",".","m","p","4">>, <<AITHER>>, <<BLU>>))

TorrentLists == { <<>>, <<1>>, <<1, 2>>, <<3, 4, 1>> }

\* the content of a file under data/banned
BannedFile(kind, last_updated, banned_groups) ==
    [kind |-> kind, last_updated |-> last_updated, banned_groups |-> banned_groups]

\* a file dated yesterday, files dated today (one without groups), a file
\* that is no JSON, a file whose JSON is a list, and a file whose
\* last_updated is a string that is no date
BannedFileStates == {
    BannedFile("object", 0, <<"G","R","P">>),
    BannedFile("object", 1, <<"O","t","h","e","r",","," ","g","r","p">>),
    BannedFile("object", 1, <<>>),
    BannedFile("invalid", 0, <<>>),
    BannedFile("array", 0, <<>>),
    BannedFile("undated", 0, <<"G","R","P">>) }

BannedFileSets == {<<>>} \cup {(t :> f) : t \in {AITHER, BLU}, f \in BannedFileStates}

Page(kind, names) == [kind |-> kind, names |-> names]

\* what the API answers: its pages in order; a page is a list of names
\* ("data"), a status other than 200 ("status"), or an exception ("error");
\* a name is any string, with commas and spaces
ApiResponses == {
    <<Page("data", <<<<"G","R","P">>>>)>>,
    <<Page("data", <<<<"O","t","h","e","r">>>>), Page("data", <<<<"G","r","p">>>>)>>,
    <<Page("data", <<>>)>>,
    <<Page("error", <<>>)>>,
    <<Page("data", <<<<"G","R","P">>>>), Page("error", <<>>)>>,
    <<Page("data", <<<<"G","R","P">>>>), Page("status", <<>>)>>,
    <<Page("data", <<<<"A",",","B">>, <<" ","C">>>>)>>,
    <<Page("status", <<>>)>> }

\* the config of the checker: an API key for AITHER, or no tracker at all
CheckerConfigs == {
    [TRACKERS |-> (AITHER :> [kind |-> "dict", api_key |-> <<"k","e","y">>])],
    [TRACKERS |-> <<>>] }

\* the hours the clock advances by between calls
TickHours == 12

\* the number of times the clock advances
MaxTicks == 2

\* the number of calls on checkers
MaxCalls == 2

InitBanned ==
    /\ db = <<>>
    /\ config_file = MissingConfig
    /\ args = RunArgs
    /\ db_exists = TRUE
    /\ db_readable = TRUE
    /\ pc = "checker"
    /\ domain_to_abbrev = <<>>
    /\ available_trackers = <<AITHER, BLU>>
    /\ torrent_rows = <<>>
    /\ row_index = 0
    /\ content_groups = <<>>
    /\ season_episode_groups = <<>>
    /\ loop_groups = <<>>
    /\ FreshProcess
    /\ NoExtraction
    /\ items = CheckedTorrents
    /\ results \in TorrentLists
    /\ enabled_trackers = <<AITHER, BLU>>
    /\ now = strptime(1)
    /\ banned_groups_cache = <<>>
    /\ banned_files \in BannedFileSets
    /\ api \in {[t \in API_TRACKERS |-> IF t = AITHER THEN r ELSE <<Page("status", <<>>)>>] : r \in ApiResponses}
    /\ banned_groups_config \in CheckerConfigs
    /\ fetches = <<>>
    /\ last_call = [op |-> "none"]
    /\ calls = 0
    /\ next_cursor = None
    /\ all_data = <<>>

\* what no call on the checker changes
CheckerFrame ==
    /\ UNCHANGED <<resolverVars, mappingVars, analysisVars, mainVars, outputVars, repeatVars>>
    /\ UNCHANGED <<test_torrent, extracted_group, api, banned_groups_config, pagingVars>>

\* time passes
Tick ==
    /\ now < strptime(1) + MaxTicks * TickHours
    /\ now' = now + TickHours
    /\ CheckerFrame
    /\ UNCHANGED <<banned_groups_cache, banned_files, fetches, last_call, calls>>

\* BannedGroupsChecker(config, base_dir): a new checker (the next run)
NewChecker ==
    /\ banned_groups_cache # <<>>
    /\ banned_groups_cache' = <<>>
    /\ last_call' = [op |-> "new"]
    /\ CheckerFrame
    /\ UNCHANGED <<now, banned_files, fetches, calls>>

\* await checker.load_banned_groups_for_tracker(tracker)
LoadBannedGroups ==
    /\ calls < MaxCalls
    /\ \E tracker \in Range(enabled_trackers) :
          LET loaded == load_banned_groups_for_tracker(tracker, Checker(banned_groups_cache, banned_files, fetches),
                                                       banned_groups_config, api, now)
          IN  /\ banned_groups_cache' = loaded.checker.cache
              /\ banned_files' = loaded.checker.files
              /\ fetches' = loaded.checker.fetches
              /\ last_call' = [op |-> "load", tracker |-> tracker, groups |-> loaded.groups,
                               fetch_called |-> loaded.fetch_called, raised |-> loaded.raised, at |-> now]
    /\ calls' = calls + 1
    /\ CheckerFrame
    /\ UNCHANGED now

\* await checker.filter_banned_torrents(torrents, trackers_to_check)
FilterBannedTorrents ==
    /\ calls < MaxCalls
    /\ LET filtered == filter_banned_torrents(results, items, enabled_trackers,
                                              Checker(banned_groups_cache, banned_files, fetches),
                                              banned_groups_config, api, now)
       IN  /\ banned_groups_cache' = filtered.checker.cache
           /\ banned_files' = filtered.checker.files
           /\ fetches' = filtered.checker.fetches
           /\ last_call' = [op |-> "filter", torrents |-> results, trackers_to_check |-> enabled_trackers,
                            filtered_torrents |-> filtered.filtered_torrents,
                            banned_torrents |-> filtered.banned_torrents,
                            filtering_stats |-> filtered.filtering_stats,
                            raised |-> filtered.raised, at |-> now]
    /\ calls' = calls + 1
    /\ CheckerFrame
    /\ UNCHANGED now

NextBanned ==
    \/ Tick
    \/ NewChecker
    \/ LoadBannedGroups
    \/ FilterBannedTorrents

SpecBanned == InitBanned /\ [][NextBanned]_vars

(***************************************************************************)
(* Whole invocation with and without --sync: main() and the analysis with  *)
(* the banned-group filter (analyze_missing_trackers)                      *)
(***************************************************************************)

\* the option names of the [TRACKERS] section, as configparser keeps them
TRACKERS_OPTIONS == {<<"e","n","a","b","l","e","d","_","t","r","a","c","k","e","r","s">>, <<"d","i","s","a","b","l","e","d","_","t","r","a","c","k","e","r","s">>}

\* banned_groups_config: {'TRACKERS': dict(config['TRACKERS'])}, whose values
\* are the option strings
TrackersSection == [TRACKERS |-> [option \in TRACKERS_OPTIONS |-> [kind |-> "str"]]]

\* filter_torrents_by_banned_groups: a new checker filters the torrents
filter_torrents_by_banned_groups(torrents, heap, trackers_to_check, config, files, started, http, time) ==
    filter_banned_torrents(torrents, heap, trackers_to_check, Checker(<<>>, files, started), config, http, time)

\* the bound on the rows of the database of an invocation with the filter
MaxAsyncRows == 2

\* rows found on one tracker each (one a single episode), and rows whose
\* trackers column is no list
AsyncRows == {1, 4, 6, 10}

AsyncDatabases == {d \in Databases : Len(d) <= MaxAsyncRows /\ Range(d) \subseteq AsyncRows}

\* configuration files that include single episodes, with banned-group
\* filtering enabled or disabled
AsyncConfigFiles ==
    {MissingConfig} \cup
    {[c EXCEPT !.banned_groups_enabled = enabled] :
        c \in {f \in ConfigFiles : f.exists /\ f.include_single_episodes /\ f.include_folders /\ f.disabled_trackers = <<>>},
        enabled \in BOOLEAN}

\* the files under data/banned: none, today's list of BLU, and a file of BLU
\* whose JSON is a list
AsyncBannedFiles == {
    <<>>,
    (BLU :> BannedFile("object", 1, <<"O","t","h","e","r",","," ","s","0","1","e","0","1">>)),
    (BLU :> BannedFile("array", 0, <<>>)) }

InitAsync ==
    /\ args \in [test_release_group : {FALSE}, show_config : {FALSE}, run : {TRUE}, debug_trackers : BOOLEAN,
                 sync : BOOLEAN, no_banned_filter : BOOLEAN]
    /\ db_exists = TRUE
    /\ db_readable \in BOOLEAN
    /\ db \in AsyncDatabases
    /\ ~db_readable => db = <<>>
    /\ config_file \in AsyncConfigFiles
    /\ pc = "main"
    /\ FreshLocals
    /\ FreshProcess
    /\ NoExtraction
    /\ now = strptime(1)
    /\ banned_groups_cache = <<>>
    /\ banned_files \in AsyncBannedFiles
    /\ api = [t \in API_TRACKERS |-> <<Page("error", <<>>)>>]
    /\ banned_groups_config = [TRACKERS |-> <<>>]
    /\ fetches = <<>>
    /\ last_call = [op |-> "none"]
    /\ calls = 0
    /\ next_cursor = None
    /\ all_data = <<>>

\* Step 6 of analyze_missing_trackers (lines 748-783): the results are
\* filtered against all enabled trackers; whatever the filter raises is
\* caught and leaves the results as they were. Without trackers to check the
\* filter returns no statistics and reading banned_count raises KeyError.
FilterBannedGroups ==
    /\ pc = "filter"
    /\ IF config_file.banned_groups_enabled /\ results # <<>>
       THEN LET filtered == filter_torrents_by_banned_groups(results, items, enabled_trackers, TrackersSection,
                                                             banned_files, fetches, api, now)
                failed == filtered.raised \/ enabled_trackers = <<>>
            IN  /\ banned_groups_config' = TrackersSection
                /\ banned_files' = filtered.checker.files
                /\ fetches' = filtered.checker.fetches
                /\ calls' = calls + 1
                /\ last_call' = [op |-> "filter", torrents |-> results, trackers_to_check |-> enabled_trackers,
                                 filtered_torrents |-> filtered.filtered_torrents,
                                 banned_torrents |-> filtered.banned_torrents,
                                 raised |-> filtered.raised, at |-> now]
                /\ results' = IF failed THEN results ELSE filtered.filtered_torrents
                /\ stdout' = stdout \o <<Say("Step 6: Filtering banned release groups...", 0)>> \o
                             (IF failed THEN <<Say("Warning: Error during banned groups filtering", 0)>>
                              ELSE IF filtered.banned_torrents # <<>>
                              THEN <<Say("Filtered out torrents with banned release groups", Len(filtered.banned_torrents))>>
                              ELSE <<>>)
       ELSE UNCHANGED <<banned_groups_config, banned_files, fetches, calls, last_call, results, stdout>>
    /\ pc' = "done"
    /\ UNCHANGED <<test_torrent, extracted_group, now, banned_groups_cache, api, pagingVars>>
    /\ UNCHANGED <<resolverVars, mappingVars, db, config_file, enabled_trackers, torrent_rows, row_index, items,
                   content_groups, season_episode_groups>>
    /\ UNCHANGED <<args, db_exists, db_readable, exit_code, connections, files_written, outputVars, repeatVars>>

NextAsync ==
    \/ NextMain
    \/ FilterBannedGroups

SpecAsync == InitAsync /\ [][NextAsync]_vars

(***************************************************************************)
(* Paging specification: the loop of _fetch_banned_groups_from_api, one    *)
(* page request per step, against an API that answers as it likes          *)
(***************************************************************************)

\* the cursors the API hands out
Cursors == {<<"c","1">>, <<"c","2">>}

\* the lists of names a page carries
PageNames == { <<>>, <<<<"G","R","P">>>>, <<<<"O","t","h","e","r">>>> }

\* the bound on the names the API reports over all pages of a fetch
MaxNames == 2

\* what the API answers to one request: an exception or timeout, a status
\* other than 200, a JSON list, a JSON object with data and a next_cursor
\* (None for none), or JSON that is neither
Answer(kind, names, cursor) == [kind |-> kind, names |-> names, next_cursor |-> cursor]

Answers ==
    {Answer("error", <<>>, None), Answer("status", <<>>, None), Answer("other", <<>>, None)}
    \cup {Answer("list", names, None) : names \in PageNames}
    \cup {Answer("dict", names, cursor) : names \in PageNames, cursor \in Cursors \cup {None}}

InitPaging ==
    /\ db = <<>>
    /\ config_file = MissingConfig
    /\ args = RunArgs
    /\ db_exists = TRUE
    /\ db_readable = TRUE
    /\ pc = "paging"
    /\ FreshLocals
    /\ FreshProcess
    /\ NoExtraction
    /\ now = strptime(1)
    /\ banned_groups_cache = <<>>
    /\ banned_files \in {<<>>} \cup {(t :> BannedFile("object", 0, <<"O","l","d">>)) : t \in API_TRACKERS}
    /\ api = <<>>
    /\ banned_groups_config = [TRACKERS |-> [t \in API_TRACKERS |-> [kind |-> "dict", api_key |-> <<"k","e","y">>]]]
    /\ fetches = <<>>
    /\ last_call \in {[op |-> "fetching", tracker |-> t] : t \in API_TRACKERS}
    /\ calls = 0
    /\ next_cursor = None
    /\ all_data = <<>>

\* the end of _fetch_banned_groups_from_api (lines 217-231): an exception
\* returns [], else the names are saved when there are any, and returned
Fetched(tracker, banned_groups, raised) ==
    /\ pc' = "fetched"
    /\ banned_files' = IF raised \/ banned_groups = <<>> THEN banned_files
                       ELSE save_banned_groups_to_file(tracker, banned_groups, banned_files, now)
    /\ last_call' = [op |-> "fetch", tracker |-> tracker,
                     groups |-> IF raised THEN <<>> ELSE banned_groups, raised |-> raised, at |-> now]

\* one pass of the loop of lines 189-215: client.get with the cursor, and
\* what the answer makes of all_data and next_cursor; the loop goes on only
\* after a JSON object with a next_cursor
RequestPage ==
    /\ pc = "paging"
    /\ \E response \in Answers :
          /\ Len(all_data) + Len(response.names) <= MaxNames
          /\ IF response.kind = "error"
             THEN /\ Fetched(last_call.tracker, <<>>, TRUE)
                  /\ UNCHANGED pagingVars
             ELSE IF response.kind \in {"status", "other"}
             THEN /\ Fetched(last_call.tracker, all_data, FALSE)
                  /\ UNCHANGED pagingVars
             ELSE IF response.kind = "list"
             THEN /\ all_data' = all_data \o response.names
                  /\ Fetched(last_call.tracker, all_data \o response.names, FALSE)
                  /\ UNCHANGED next_cursor
             ELSE /\ all_data' = all_data \o response.names
                  /\ next_cursor' = response.next_cursor
                  /\ IF response.next_cursor = None
                     THEN Fetched(last_call.tracker, all_data \o response.names, FALSE)
                     ELSE UNCHANGED <<pc, banned_files, last_call>>
    /\ UNCHANGED <<resolverVars, mappingVars, db, config_file, enabled_trackers, torrent_rows, row_index, items,
                   content_groups, season_episode_groups, results>>
    /\ UNCHANGED <<mainVars, outputVars, repeatVars>>
    /\ UNCHANGED <<test_torrent, extracted_group, now, banned_groups_cache, api, banned_groups_config, fetches, calls>>

NextPaging == RequestPage

SpecPaging == InitPaging /\ [][NextPaging]_vars

\* every request returns or times out, so the loop always takes its next pass
SpecPagingFair == SpecPaging /\ WF_vars(RequestPage)

(***************************************************************************)
(* Configuration specification: load_config and                            *)
(* get_enabled_trackers_from_config on lists of available tracker codes    *)
(***************************************************************************)

GGn == <<"G","G","n">>

MTeam == <<"M","T","e","a","m">>

\* sorted(mapped_trackers): the non-empty lists of available codes
AvailableLists ==
    LET codes == <<AITHER, BLU, GGn, MTeam>>
    IN  {SelectSeq(codes, LAMBDA t : t \in chosen) : chosen \in (SUBSET Range(codes)) \ {{}}}

\* default_trackers of create_default_config: ','.join(available_trackers)
\* or a fixed list when there are none
default_trackers(available) ==
    IF available # <<>> THEN Join(available, <<",">>) ELSE <<"B","L","U",",","A","I","T","H","E","R",",","A","N","T",",","B","H","D",",","M","T","V",",","F","L",",","T","L",",","B","T","N",",","P","H","D">>

\* the values of enabled_trackers and disabled_trackers in the file
EnabledValues == { <<>>, <<"G","G","n">>, <<"g","g","n",","," ","b","l","u">>, <<"B","L","U",",","A","I","T","H","E","R">>, <<"M","T","e","a","m",","," ","L","S","T">> }

DisabledValues == { <<>>, <<"G","G","n">>, <<"a","i","t","h","e","r">>, <<"B","L","U",","," ","m","t","e","a","m">> }

TrackersConfig(enabled, disabled) ==
    [exists |-> TRUE, enabled_trackers |-> enabled, disabled_trackers |-> disabled,
     include_single_episodes |-> FALSE, include_folders |-> TRUE, prefer_seasons_over_episodes |-> TRUE,
     banned_groups_enabled |-> TRUE]

\* the analysis has built the mapping and is about to load the configuration:
\* a file with the lists above, a file with the default list, or no file
InitConfig ==
    /\ db = <<>>
    /\ available_trackers \in AvailableLists
    /\ config_file \in {MissingConfig}
                       \cup {TrackersConfig(e, d) : e \in EnabledValues, d \in DisabledValues}
                       \cup {TrackersConfig(default_trackers(available_trackers), <<>>)}
    /\ args = RunArgs
    /\ db_exists = TRUE
    /\ db_readable = TRUE
    /\ pc = "config"
    /\ domain_to_abbrev = <<>>
    /\ enabled_trackers = <<>>
    /\ torrent_rows = <<>>
    /\ row_index = 0
    /\ items = <<>>
    /\ content_groups = <<>>
    /\ season_episode_groups = <<>>
    /\ results = <<>>
    /\ loop_groups = <<>>
    /\ FreshProcess
    /\ FreshChecker

NextConfig == LoadConfig

SpecConfig == InitConfig /\ [][NextConfig]_vars

(***************************************************************************)
(* Resolver specification: the resolver applied to identifiers drawn from  *)
(* the alias table (in several letter cases, bare and prefixed) and from a *)
(* set of other strings.                                                   *)
(***************************************************************************)
VariantsOf(matches) == {matches[i].variant : i \in 1..Len(matches)}

Aliases == VariantsOf(AllMatches)

RawVariantsOf(mapping) == UNION {Range(mapping[k].variants) : k \in 1..Len(mapping)}

RawAliases == RawVariantsOf(TRACKER_MAPPING)

CaseVariants(s) == {s, lower(s), upper(s), swapcase(s)}

HTTPS == <<"h","t","t","p","s",":","/","/">>

WWW == <<"w","w","w",".">>

Prefixes == {<<>>, HTTPS, WWW, HTTPS \o WWW}

AliasInputs == {p \o c : p \in Prefixes, c \in UNION {CaseVariants(a) : a \in RawAliases}}

\* identifiers that are no alias: unknown hosts, blank input, hosts that hold
\* only a short alias, hosts that hold or are held by a long alias
UNKNOWN_DOMAIN == <<"t","o","t","a","l","l","y","-","u","n","k","n","o","w","n","-","d","o","m","a","i","n",".","x","y","z">>

OtherInputs == {
    UNKNOWN_DOMAIN,
    <<>>,
    <<" "," "," ">>,
    <<"e","x","a","m","p","l","e",".","o","r","g">>,
    <<"a","t",".","e","x","a","m","p","l","e">>,
    <<"b","l","u",".","e","x","a","m","p","l","e">>,
    <<"h","d">>,
    <<"t","r","a","c","k","e","r",".","a","i","t","h","e","r",".","c","c">>,
    <<" ","A","i","t","h","e","r",".","C","C"," ">>,
    <<"t","o","r","r","e","n","t">>,
    <<"r","a","c","k","e","r">>,
    <<"b","l","u","t","o","p","i","a",".","a","i","t","h","e","r",".","c","c">> }

ResolverInputs == AliasInputs \cup OtherInputs

InitResolver ==
    /\ domain \in ResolverInputs
    /\ abbrev = None
    /\ rpc = "call"
    /\ db = <<>>
    /\ config_file = MissingConfig
    /\ args = RunArgs
    /\ db_exists = TRUE
    /\ db_readable = TRUE
    /\ FreshChecker
    /\ pc = "idle"
    /\ FreshLocals
    /\ exit_code = -1
    /\ stdout = <<>>
    /\ connections = 0
    /\ files_written = {}
    /\ displayed = <<>>
    /\ commands = <<>>
    /\ run = 1
    /\ first_results = <<>>
    /\ second_pass = <<>>

\* map_domain_to_abbreviation(domain)
Resolve ==
    /\ rpc = "call"
    /\ abbrev' = map_domain_to_abbreviation(domain)
    /\ rpc' = "resolved"
    /\ UNCHANGED <<pagingVars, bannedVars, domain, mappingVars, analysisVars, mainVars, outputVars, repeatVars>>

\* build_comprehensive_tracker_mapping() over a database whose only trackers
\* list is [domain, "aither.cc"]
ResolverBuild ==
    /\ rpc = "resolved"
    /\ LET m == build_comprehensive_tracker_mapping(extract_unique_trackers({<<domain, AITHER_CC>>}))
       IN  /\ domain_to_abbrev' = m.domain_to_abbrev
           /\ available_trackers' = m.mapped_trackers
    /\ rpc' = "built"
    /\ UNCHANGED <<pagingVars, bannedVars, domain, abbrev, analysisVars, mainVars, outputVars, repeatVars>>

NextResolver == Resolve \/ ResolverBuild

SpecResolver == InitResolver /\ [][NextResolver]_vars

(***************************************************************************)
(* Resolver properties                                                     *)
(***************************************************************************)

\* C1: every registered alias of a code, in any letter case, bare or prefixed
\* with "https://" and/or "www.", resolves to that code.
C1_ResolverExactness ==
    rpc # "call" =>
        \A k \in 1..Len(TRACKER_MAPPING) : \A a \in Range(TRACKER_MAPPING[k].variants) :
            domain \in {p \o c : p \in Prefixes, c \in CaseVariants(a)}
                => abbrev = TRACKER_MAPPING[k].abbrev

\* the identifier, as the resolver compares it, equals no alias, holds no
\* alias of four or more characters and is held by no alias
IsUnknown(d) ==
    LET dl == strip(lower(d))
    IN  \A v \in Aliases :
            /\ dl # v
            /\ ~(Len(v) >= 4 /\ Contains(dl, v))
            /\ ~Contains(v, dl)

\* C9: an identifier that matches no alias resolves to None and is left out
\* of the domain map and contributes no code to the available trackers.
C9_UnknownSafety ==
    (rpc = "built" /\ IsUnknown(domain)) =>
        /\ abbrev = None
        /\ strip(domain) \notin DOMAIN domain_to_abbrev
        /\ domain \notin DOMAIN domain_to_abbrev
        /\ DOMAIN domain_to_abbrev = {AITHER_CC}
        /\ available_trackers = <<domain_to_abbrev[AITHER_CC]>>

C9_Witness ==
    /\ rpc = "built"
    /\ domain = UNKNOWN_DOMAIN
    /\ IsUnknown(domain)
    /\ abbrev = None
    /\ Len(available_trackers) = 1

(***************************************************************************)
(* Analysis properties                                                     *)
(***************************************************************************)

\* the k-th result of the returned list
Result(k) == items[results[k]]

\* the tracker codes the domains of record h resolve to
ResolvedCodes(h) == {map_domain_to_abbreviation(d) : d \in Range(Pool[h].trackers.value)} \ {None}

\* the records that were turned into items and share the normalized name of
\* the k-th result: the members of its group
MembersOf(k) ==
    {h \in DOMAIN items : normalize_content_name(items[h].name) = normalize_content_name(Result(k).name)}

GroupCodes(k) == UNION {ResolvedCodes(h) : h \in MembersOf(k)}

NoRepeats(seq) == Cardinality(Range(seq)) = Len(seq)

C3_NonEmptyMissing ==
    pc = "done" => \A k \in 1..Len(results) : Result(k).missing_trackers # <<>>

\* the record passes the video, single-episode and folder filters and its
\* trackers field holds a list of strings
IsValidRecord(h) ==
    /\ Pool[h].trackers.kind = "list"
    /\ create_torrent_item(Pool[h], domain_to_abbrev, enabled_trackers, config_file).kind = "item"

\* C4: a record whose trackers field is no list of strings is skipped; with a
\* configuration file present the analysis does not abort and every valid
\* record is still covered by a result.
C4_MalformedRecordSkipped ==
    (config_file.exists /\ pc \in {"done", "error"}) =>
        /\ pc = "done"
        /\ \A i \in 1..Len(db) :
              (Pool[db[i]].save_path # <<>> /\ IsValidRecord(db[i])) =>
                  \E k \in 1..Len(results) :
                      normalize_content_name(Result(k).name) = normalize_content_name(Pool[db[i]].name)

\* C5: records of one normalized name are emitted once, with the union of
\* their found sets, in whichever order the records come; a member's found set
\* is contained in its group's; every record contributes to at most one result.
C5_MergeUnion ==
    pc = "done" =>
        /\ \A k1, k2 \in 1..Len(results) :
              normalize_content_name(Result(k1).name) = normalize_content_name(Result(k2).name) => k1 = k2
        /\ \A h \in DOMAIN items : Cardinality({k \in 1..Len(results) : h \in MembersOf(k)}) <= 1
        /\ \A k \in 1..Len(results) :
              /\ \A h \in MembersOf(k) :
                    ResolvedCodes(h) \cap Range(enabled_trackers) \subseteq Range(Result(k).found_trackers)
              /\ \A h1, h2 \in MembersOf(k) :
                    (h1 # h2 /\ MembersOf(k) = {h1, h2}) =>
                        /\ Range(Result(k).found_trackers) =
                              (ResolvedCodes(h1) \cup ResolvedCodes(h2)) \cap Range(enabled_trackers)
                        /\ Range(Result(k).missing_trackers) =
                              Range(enabled_trackers) \ (ResolvedCodes(h1) \cup ResolvedCodes(h2))

\* two records of one name, found on different trackers, supplied in the
\* order opposite to their info_hashes, merged with a tracker still missing
C5_Witness ==
    /\ pc = "done"
    /\ \E i, j \in 1..Len(db) :
          /\ i < j /\ db[i] > db[j]
          /\ Pool[db[i]].name = Pool[db[j]].name
          /\ \E k \in 1..Len(results) :
                /\ MembersOf(k) = {db[i], db[j]}
                /\ ResolvedCodes(db[i]) # ResolvedCodes(db[j])
                /\ Range(Result(k).found_trackers) = ResolvedCodes(db[i]) \cup ResolvedCodes(db[j])
                /\ Result(k).duplicates # <<>>
                /\ Result(k).missing_trackers # <<>>

\* the name without its video file extension, in lower case, separators as
\* single blanks: what two names that differ only in extension, letter case
\* or separators have in common
WithoutExtension(name) ==
    IF lower(PathSuffix(name)) \in VIDEO_EXTENSIONS
    THEN SubSeq(name, 1, Len(name) - Len(PathSuffix(name)))
    ELSE name

CanonicalName(name) == strip(CollapseWhitespace(ReplaceSeparators(lower(WithoutExtension(name)))))

\* C6: two video records whose names differ only in file extension, letter
\* case or separators have the same normalized name and give one result.
C6_SameContentMerged ==
    pc = "done" =>
        \A h1, h2 \in DOMAIN items :
            CanonicalName(items[h1].name) = CanonicalName(items[h2].name) =>
                /\ normalize_content_name(items[h1].name) = normalize_content_name(items[h2].name)
                /\ Cardinality({k \in 1..Len(results) :
                                  CanonicalName(Result(k).name) = CanonicalName(items[h1].name)}) <= 1

\* C7 as stated: the list the analysis returns is sorted case-insensitively
\* by name.
C7_ResultsSorted ==
    pc = "done" =>
        \A k \in 1..(Len(results) - 1) : ~StrLess(lower(Result(k + 1).name), lower(Result(k).name))

StartsWith(s, prefix) == Len(s) >= Len(prefix) /\ SubSeq(s, 1, Len(prefix)) = prefix

UPLOAD_PREFIX == <<"p","y","t","h","o","n","3"," ","u","p","l","o","a","d",".","p","y"," ","\"">>

NO_MISSING_PREFIX == <<"#"," ","N","o"," ","m","i","s","s","i","n","g"," ","t","r","a","c","k","e","r","s"," ","f","o","r",":"," ">>

\* the lines of the commands file that stand for a result: its upload
\* command, or the comment written in its place
CommandLinesOf(lines) ==
    SelectSeq(lines, LAMBDA l : StartsWith(l, UPLOAD_PREFIX) \/ StartsWith(l, NO_MISSING_PREFIX))

\* C7, amended: the names display_results prints, and the results of the
\* commands file, come in case-insensitive order of name.
C7_ReportsSorted ==
    pc = "exit" =>
        /\ \A k \in 1..(Len(displayed) - 1) : ~StrLess(lower(displayed[k + 1]), lower(displayed[k]))
        /\ \A k \in 1..(Len(CommandLinesOf(commands)) - 1) :
              \E h1, h2 \in Range(results) :
                  /\ CommandLinesOf(commands)[k] = CommandLine(items[h1])
                  /\ CommandLinesOf(commands)[k + 1] = CommandLine(items[h2])
                  /\ ~StrLess(lower(items[h2].name), lower(items[h1].name))

\* a returned list that is not in case-insensitive order, displayed and
\* written to the commands file
C7_Witness ==
    /\ pc = "exit"
    /\ \E k \in 1..(Len(results) - 1) : StrLess(lower(Result(k + 1).name), lower(Result(k).name))
    /\ Len(displayed) = Len(results)
    /\ Len(CommandLinesOf(commands)) = Len(results)
    /\ displayed[1] # Result(1).name

C10_MissingDatabaseFatal ==
    ((args.run \/ args.debug_trackers) /\ ~args.test_release_group /\ ~db_exists) =>
        /\ connections = 0
        /\ files_written \cap {"commands", "debug"} = {}
        /\ pc \in {"main", "show_config", "mode", "database", "exit"}
        /\ pc = "exit" =>
              /\ exit_code # 0
              /\ \E i \in 1..Len(stdout) : stdout[i].msg = "Database not found"

\* C11: when the database file exists but cannot be read or queried, a run
\* with --run ends with a non-zero exit code, and not with the report that no
\* torrents were found.
C11_UnreadableDatabaseFatal ==
    (db_exists /\ ~db_readable /\ args.run /\ ~args.test_release_group /\ pc = "exit") =>
        /\ exit_code # 0
        /\ \A i \in 1..Len(stdout) : stdout[i].msg # "No torrents found needing upload to additional trackers"

(***************************************************************************)
(* Properties of the release-group extraction                              *)
(***************************************************************************)

IsAlnum(s) == s # <<>> /\ \A i \in 1..Len(s) : s[i] \in ALNUM

\* name ends in -<group>, optionally followed by a video file extension
EndsInDashGroup(name, group) ==
    \E e \in {<<>>} \cup VIDEO_EXTENSIONS :
        /\ Len(name) >= Len(group) + Len(e) + 1
        /\ SubSeq(name, Len(name) - Len(group) - Len(e), Len(name)) = <<"-">> \o group \o e

\* C12: for a release name that ends in -GROUP (optionally followed by a
\* video file extension), contains no bracketed token, and whose GROUP is
\* alphanumeric and passes the release-group validator, the extraction
\* returns GROUP.
C12_DashGroupExtracted ==
    pc = "extracted" =>
        \A g \in ReleaseGroups :
            (/\ EndsInDashGroup(test_torrent, g)
             /\ "[" \notin Range(test_torrent)
             /\ IsAlnum(g)
             /\ is_likely_release_group(g)) => extracted_group = g


(***************************************************************************)
(* Properties of the banned-group checker                                  *)
(***************************************************************************)

\* the banned list the checker holds for a tracker: its valid entry of the
\* in-memory cache
HeldList(tracker) ==
    IF tracker \in DOMAIN banned_groups_cache /\ now - banned_groups_cache[tracker].timestamp < CACHE_HOURS
    THEN banned_groups_cache[tracker].groups
    ELSE <<>>

\* the list contains the group, compared as whole strings without case
ListsGroup(list, group) == \E k \in 1..Len(list) : upper(list[k]) = upper(group)

\* the banned list has the record, with an entry for the tracker whose
\* reason names the group and the tracker
BannedWith(banned, id, tracker, group) ==
    \E b \in Range(banned) :
        /\ b.info_hash = id
        /\ \E e \in Range(b.banned_info) :
              e.tracker = tracker /\ Contains(e.reason, group) /\ Contains(e.reason, tracker)

\* C13: after filter_banned_torrents has returned, every record it was given
\* whose extracted group is on the banned list of a checked tracker the
\* record is missing from is absent from the passed list and present in the
\* banned list, with a banned_info entry for that tracker whose reason names
\* the group and the tracker.
C13_BannedRecordRemoved ==
    (last_call.op = "filter" /\ ~last_call.raised) =>
        \A id \in Range(last_call.torrents) :
            LET group == extract_release_group_from_name(items[id].name)
            IN  \A tracker \in Range(last_call.trackers_to_check) :
                    (/\ group # None
                     /\ tracker \in Range(items[id].missing_trackers)
                     /\ ListsGroup(HeldList(tracker), group)) =>
                        /\ id \notin Range(last_call.filtered_torrents)
                        /\ BannedWith(last_call.banned_torrents, id, tracker, group)

\* a record of group GRP was removed for a tracker whose list has "grp"
C13_Witness ==
    /\ last_call.op = "filter"
    /\ ~last_call.raised
    /\ <<"g","r","p">> \in Range(HeldList(AITHER))
    /\ 1 \in Range(last_call.torrents)
    /\ 1 \notin Range(last_call.filtered_torrents)
    /\ BannedWith(last_call.banned_torrents, 1, AITHER, <<"G","R","P">>)

\* C15: of the HTTP fetches started for one tracker, by one checker or by
\* several sharing the cache files, no two are less than 24 hours apart.
C15_OneFetchPerDay ==
    \A i \in 1..Len(fetches) : \A j \in 1..Len(fetches) :
        (i < j /\ fetches[i].tracker = fetches[j].tracker) =>
            fetches[j].at - fetches[i].at >= CACHE_HOURS


\* the checker holds a valid in-memory entry for the tracker
ValidEntry(tracker) ==
    tracker \in DOMAIN banned_groups_cache /\ now - banned_groups_cache[tracker].timestamp < CACHE_HOURS

\* the cache file of the tracker is a JSON object with a last_updated date
DatedFile(tracker) == tracker \in DOMAIN banned_files /\ banned_files[tracker].kind = "object"

\* C16: a call of load_banned_groups_for_tracker for a tracker without a
\* valid in-memory entry calls the API fetch when the tracker's cache file is
\* dated before today; when the file is dated today it returns the file's
\* groups, stores them in the in-memory cache, and neither calls the API
\* fetch nor starts an HTTP request.
C16_FileFreshByDate ==
    [][(calls' = calls + 1 /\ last_call'.op = "load") =>
          \A tracker \in {last_call'.tracker} :
              (~ValidEntry(tracker) /\ DatedFile(tracker)) =>
                  /\ banned_files[tracker].last_updated < strftime(now) => last_call'.fetch_called
                  /\ banned_files[tracker].last_updated = strftime(now) =>
                        /\ ~last_call'.fetch_called
                        /\ ~last_call'.raised
                        /\ last_call'.groups = FileGroups(banned_files[tracker].banned_groups)
                        /\ tracker \in DOMAIN banned_groups_cache'
                        /\ banned_groups_cache'[tracker].groups = last_call'.groups
                        /\ fetches' = fetches
                        /\ banned_files' = banned_files]_vars

\* a load found yesterday's file, called the API fetch, and the fetch left
\* the file as it was
C16_Witness ==
    /\ last_call.op = "load"
    /\ last_call.fetch_called
    /\ DatedFile(last_call.tracker)
    /\ banned_files[last_call.tracker].last_updated < strftime(last_call.at)
    /\ banned_files[last_call.tracker].banned_groups # <<>>

\* the HTTP fetch for the tracker fails: a page request raises before the
\* last page was read
FetchFails(tracker) ==
    \E k \in 1..Len(api[tracker]) :
        /\ api[tracker][k].kind = "error"
        /\ \A j \in 1..(k - 1) : api[tracker][j].kind = "data"

\* the trackers an HTTP fetch was started for in this step
FetchedNow == {fetches'[k].tracker : k \in (Len(fetches) + 1)..Len(fetches')}

\* C17: when the HTTP fetch for a tracker fails, the call of
\* load_banned_groups_for_tracker that started it returns an empty list and
\* does not raise, and the call of filter_banned_torrents that started it
\* does not raise and bans no record for that tracker.
C17_FailedFetchHarmless ==
    [][\A tracker \in FetchedNow :
          FetchFails(tracker) =>
              /\ ~last_call'.raised
              /\ last_call'.op = "load" => last_call'.groups = <<>>
              /\ last_call'.op = "filter" =>
                    \A b \in Range(last_call'.banned_torrents) :
                        \A e \in Range(b.banned_info) : e.tracker # tracker]_vars

(***************************************************************************)
(* Properties of the invocation with the banned-group filter               *)
(***************************************************************************)

\* the banned list of a tracker on file: the groups of a cache file dated
\* today
ListOnFile(tracker) ==
    IF DatedFile(tracker) /\ banned_files[tracker].last_updated = strftime(now)
    THEN FileGroups(banned_files[tracker].banned_groups)
    ELSE <<>>

\* the group of the record is banned on a tracker the record is missing from
BannedWhereMissing(id) ==
    \E tracker \in Range(items[id].missing_trackers) :
        /\ extract_release_group_from_name(items[id].name) # None
        /\ ListsGroup(ListOnFile(tracker), extract_release_group_from_name(items[id].name))

\* C14: the banned filter of the analysis removes a record from the results
\* if and only if the record's group is banned on at least one tracker of
\* the record's own missing_trackers.
C14_RemovedIffBannedWhereMissing ==
    (last_call.op = "filter" /\ ~last_call.raised /\ pc = "done") =>
        \A id \in Range(last_call.torrents) :
            (id \notin Range(results)) <=> BannedWhereMissing(id)

\* C18: in a run with --no-banned-filter the banned-group filter is never
\* invoked, and the results of the analysis are the results of duplicate
\* processing, whatever the configuration says.
C18_NoBannedFilterFlag ==
    args.no_banned_filter =>
        /\ calls = 0
        /\ last_call.op = "filter" => results = last_call.torrents

\* C20: no step of an invocation (debug mapping, tracker and category
\* extraction, the analysis with or without --sync, with or without an
\* error) changes the rows of the cross-seed database.
C20_DatabaseUnchanged == [][db' = db]_vars

\* an invocation has queried a database with rows and ended
C20_Witness ==
    /\ pc = "exit"
    /\ db # <<>>
    /\ connections >= 3
    /\ exit_code = 0

(***************************************************************************)
(* Properties of the commands file                                         *)
(***************************************************************************)

TRACKERS_FLAG == <<"\"">> \o <<" ","-","-","t","r","a","c","k","e","r","s"," ">>

\* python3 upload.py "<path>/<name>" --trackers <comma-separated missing codes>
UploadCommand(item) ==
    UPLOAD_PREFIX \o PathJoin(item.path, item.name) \o TRACKERS_FLAG \o Join(item.missing_trackers, COMMA)

\* main() has written the commands file of a run with --clean
CleanCommandsWritten ==
    /\ pc = "exit"
    /\ "commands" \in files_written
    /\ \A i \in 1..Len(stdout) : stdout[i].msg # "Analysis complete!"

\* C19: the commands file of a run with clean output has at most one line
\* per result, and each line is the upload command of a result with its
\* missing codes: no line is a comment or blank.
C19_CleanCommandsOnly ==
    CleanCommandsWritten =>
        /\ Len(commands) <= Len(results)
        /\ \A k \in 1..Len(commands) :
              /\ commands[k] # <<>>
              /\ commands[k][1] # "#"
              /\ \E h \in Range(results) :
                    items[h].missing_trackers # <<>> /\ commands[k] = UploadCommand(items[h])

(***************************************************************************)
(* Properties of the fetch and of the cache file                           *)
(***************************************************************************)

\* the HTTP fetch for the tracker completes successfully: every page
\* request is answered with status 200
FetchSucceeds(tracker) == \A k \in 1..Len(api[tracker]) : api[tracker][k].kind = "data"

\* the names the API reports for the tracker, over all its pages
RECURSIVE NamesFrom(_, _)
NamesFrom(pages, k) == IF k > Len(pages) THEN <<>> ELSE pages[k].names \o NamesFrom(pages, k + 1)

\* the tracker's cache file is today's and holds the list, and so does the
\* in-memory cache
Persisted(tracker, list, files, cache, time) ==
    /\ tracker \in DOMAIN files
    /\ files[tracker].kind = "object"
    /\ files[tracker].last_updated = strftime(time)
    /\ FileGroups(files[tracker].banned_groups) = list
    /\ tracker \in DOMAIN cache
    /\ cache[tracker].groups = list
    /\ cache[tracker].timestamp = time

\* C21: a call of load_banned_groups_for_tracker whose HTTP fetch completes
\* successfully, also with zero banned groups, returns the reported list,
\* writes it to the tracker's cache file with today's last_updated and stores
\* it in the in-memory cache.
C21_SuccessfulFetchPersisted ==
    [][(last_call'.op = "load" /\ calls' = calls + 1) =>
          \A tracker \in FetchedNow :
              FetchSucceeds(tracker) =>
                  /\ last_call'.groups = NamesFrom(api[tracker], 1)
                  /\ Persisted(tracker, NamesFrom(api[tracker], 1), banned_files', banned_groups_cache', now)]_vars

\* a page request of the fetch for the tracker is answered with a status
\* other than 200
FetchRefused(tracker) ==
    \E k \in 1..Len(api[tracker]) :
        /\ api[tracker][k].kind = "status"
        /\ \A j \in 1..(k - 1) : api[tracker][j].kind = "data"

\* C22: a call of load_banned_groups_for_tracker whose HTTP fetch meets a
\* status other than 200 on any page returns an empty list, writes no cache
\* file and stores nothing in the in-memory cache, also when earlier pages
\* of the fetch returned groups.
C22_RefusedFetchNoData ==
    [][(last_call'.op = "load" /\ calls' = calls + 1) =>
          \A tracker \in FetchedNow :
              FetchRefused(tracker) =>
                  /\ last_call'.groups = <<>>
                  /\ banned_files' = banned_files
                  /\ banned_groups_cache' = banned_groups_cache]_vars

\* C23: the paging loop of the fetch ends, whatever the API answers, as long
\* as every request returns or times out.
C23_FetchTerminates == <>(pc = "fetched")

(***************************************************************************)
(* Properties of the configuration                                         *)
(***************************************************************************)

\* the available codes that a configured list names: an entry between commas
\* names a code when, spaces and case aside, it is the code
NamedIn(value, available) ==
    LET parts == Split(value, ",")
    IN  {a \in Range(available) : \E k \in 1..Len(parts) : upper(strip(parts[k])) = upper(a)}

\* C24: get_enabled_trackers_from_config narrows the available codes by the
\* configured lists: with a non-empty enabled_trackers list the result is
\* exactly the available codes named in it, with only a disabled_trackers
\* list it is the available codes without those named, and it is always a
\* subset of the available codes; for every code, the mixed-case codes
\* included, and for the default list written from the available codes
C24_EnabledTrackersNarrowed ==
    [][(pc = "config" /\ pc' = "query") =>
        /\ Range(enabled_trackers') \subseteq Range(available_trackers)
        /\ strip(config_file.enabled_trackers) # <<>> =>
               Range(enabled_trackers') = NamedIn(config_file.enabled_trackers, available_trackers)
        /\ (strip(config_file.enabled_trackers) = <<>> /\ strip(config_file.disabled_trackers) # <<>>) =>
               Range(enabled_trackers') =
                   Range(available_trackers) \ NamedIn(config_file.disabled_trackers, available_trackers)]_vars

\* C25: when the configuration file does not exist, load_config creates the
\* default configuration file and returns its configuration, and the analysis
\* of the first run goes on to its query with the trackers of that
\* configuration instead of failing
C25_DefaultConfigCreated ==
    [][(pc = "config" /\ ~config_file.exists) =>
        /\ pc' = "query"
        /\ "config" \in files_written'
        /\ Range(enabled_trackers') = Range(available_trackers)]_vars

(***************************************************************************)
(* Properties of the resolver: several aliases in one identifier           *)
(***************************************************************************)

\* the (abbrev, variant) pairs whose variant, of four or more characters, is
\* held by the identifier
HeldAliases(dl, matches) ==
    {i \in 1..Len(matches) : Len(matches[i].variant) >= 4 /\ Contains(dl, matches[i].variant)}

\* the codes of the longest variants among the pairs chosen
CodesOfLongest(chosen, matches) ==
    {matches[i].abbrev : i \in {j \in chosen : \A k \in chosen : Len(matches[k].variant) <= Len(matches[j].variant)}}

\* the codes of the pairs chosen
CodesOf(chosen, matches) == {matches[i].abbrev : i \in chosen}

LongestAliasWins(dl, matches, result) ==
    /\ ExactHits(dl, matches) # {} => result \in CodesOf(ExactHits(dl, matches), matches)
    /\ (ExactHits(dl, matches) = {} /\ Cardinality(CodesOf(HeldAliases(dl, matches), matches)) > 1) =>
           result \in CodesOfLongest(HeldAliases(dl, matches), matches)

\* C26: an identifier that equals no alias and holds aliases (of at least 4
\* characters) of several codes resolves to the code of the longest alias it
\* holds; an identifier that equals an alias resolves to the code of that
\* alias, whatever else it holds
C26_LongestAliasWins ==
    rpc # "call" => LongestAliasWins(strip(lower(domain)), AllMatches, abbrev)

C26_Witness ==
    /\ rpc = "resolved"
    /\ domain = <<"w","w","w",".","c","h","d","b","i","t","s">>
    /\ ExactHits(domain, AllMatches) = {}
    /\ {<<"C","H","D">>, <<"H","D","B">>} \subseteq CodesOf(HeldAliases(domain, AllMatches), AllMatches)
    /\ abbrev = <<"C","H","D">>

(***************************************************************************)
(* Properties of the extraction: tokens that are no release group          *)
(***************************************************************************)

\* a season/episode marker in lower case: s<digits>, e<digits>, ep<digits>,
\* and the combined s<digits>e<digits>
IsSeasonEpisodeMarker(t) ==
    \/ Len(t) >= 2 /\ t[1] \in {"s", "e"} /\ AllDigits(t, 2)
    \/ Len(t) >= 3 /\ SubSeq(t, 1, 2) = <<"e","p">> /\ AllDigits(t, 3)
    \/ \E k \in 3..(Len(t) - 1) :
           /\ t[1] = "s"
           /\ \A i \in 2..(k - 1) : t[i] \in DIGITS
           /\ t[k] = "e"
           /\ AllDigits(t, k + 1)

\* a four-digit year, or a resolution, codec, source, stopword or quality
\* token, in lower case
IsDeniedToken(t) == (Len(t) = 4 /\ AllDigits(t, 1)) \/ t \in FALSE_POSITIVES

\* C27: extract_release_group_from_name never returns a four-digit year, a
\* resolution token, a codec name, a source tag, a stopword, a quality
\* abbreviation or a season/episode marker (S01, E05, EP3, S01E01): every
\* value it returns passes _is_likely_release_group and is none of these
C27_NoDeniedToken ==
    (pc = "extracted" /\ extracted_group # None) =>
        /\ is_likely_release_group(extracted_group)
        /\ ~IsDeniedToken(lower(extracted_group))
        /\ ~IsSeasonEpisodeMarker(lower(extracted_group))

(***************************************************************************)
(* Properties of the filter: the two lists and the statistics              *)
(***************************************************************************)

\* the records of the banned list
BannedRecords(banned_torrents) == [k \in 1..Len(banned_torrents) |-> banned_torrents[k].info_hash]

\* passed and banned share no record, hold together the records of the input
\* and no other, each in the order of the input
IsPartition(torrents, passed, banned) ==
    /\ Range(passed) \cap Range(banned) = {}
    /\ Range(passed) \cup Range(banned) = Range(torrents)
    /\ passed = SelectSeq(torrents, LAMBDA id : id \in Range(passed))
    /\ banned = SelectSeq(torrents, LAMBDA id : id \in Range(banned))

\* the statistics count the input, the passed and the banned records
StatsAddUp(filtering_stats, torrents, banned) ==
    /\ {"total_checked", "banned_count", "passed_count"} \subseteq DOMAIN filtering_stats
    /\ filtering_stats.passed_count + filtering_stats.banned_count = filtering_stats.total_checked
    /\ filtering_stats.total_checked = Len(torrents)
    /\ filtering_stats.banned_count = Len(banned)

\* C28: whenever the tracker list is non-empty, what filter_banned_torrents
\* returns is a partition of its input: the passed list and the banned list
\* are disjoint and hold together exactly the input records in their order,
\* and the statistics satisfy passed_count + banned_count = total_checked =
\* the number of input records, with banned_count the length of the banned
\* list
C28_FilterPartitions ==
    (last_call.op = "filter" /\ ~last_call.raised /\ last_call.trackers_to_check # <<>>) =>
        /\ IsPartition(last_call.torrents, last_call.filtered_torrents, BannedRecords(last_call.banned_torrents))
        /\ StatsAddUp(last_call.filtering_stats, last_call.torrents, last_call.banned_torrents)

(***************************************************************************)
(* Properties of the cache file                                            *)
(***************************************************************************)

\* C29: a list of banned group names saved by _save_banned_groups_to_file
\* and read back the same day by load_banned_groups_for_tracker of a new
\* checker is the same list, element for element, whatever the names are
\* (with commas, with leading or trailing spaces)
C29_CacheFileRoundTrip ==
    [][(last_call'.op = "load" /\ calls' = calls + 1 /\ last_call'.groups # <<>>) =>
        \A tracker \in FetchedNow :
            LET reread == load_banned_groups_for_tracker(tracker, Checker(<<>>, banned_files', fetches'),
                                                         banned_groups_config, api, now)
            IN  /\ ~reread.fetch_called
                /\ reread.groups = last_call'.groups]_vars

\* the cache file of the tracker cannot be interpreted: it is no JSON, its
\* JSON is no object, or its last_updated is no date
Uninterpretable(tracker, files) ==
    tracker \in DOMAIN files /\ files[tracker].kind \in {"invalid", "array", "undated"}

\* C30: a cache file that cannot be interpreted is treated as absent:
\* load_banned_groups_for_tracker does not raise and goes on to the API
\* fetch, and filter_banned_torrents completes for all records
C30_BadCacheFileAsAbsent ==
    [][calls' = calls + 1 =>
        /\ (last_call'.op = "load" /\ Uninterpretable(last_call'.tracker, banned_files)) =>
               (~last_call'.raised /\ last_call'.fetch_called)
        /\ (last_call'.op = "filter"
              /\ \E k \in 1..Len(last_call'.trackers_to_check) :
                     Uninterpretable(last_call'.trackers_to_check[k], banned_files)) =>
               /\ ~last_call'.raised
               /\ Len(last_call'.filtered_torrents) + Len(last_call'.banned_torrents) = Len(last_call'.torrents)]_vars

====
